---------------------------- MODULE Spec2Model ----------------------------
(***************************************************************************)
(* STRIKER EDGE AI: the frame loop of striker/main.py (mission state       *)
(* machine, pilot-switch arbitration) together with the objects it drives: *)
(* PixelTracker, RecoveryManager, VisualServo/PIDController, ROISelector   *)
(* and the HailoDetector mailboxes with their worker thread.               *)
(*                                                                         *)
(* Python values are represented as follows.                               *)
(*   None            the empty tuple << >> (NoneV), for a bbox, a list     *)
(*                   option or a timestamp                                 *)
(*   bbox            << x, y, w, h >> of integers                          *)
(*   float           an exact rational << n, d >> in lowest terms, d > 0   *)
(*   Optional list   << >> for None, << list >> for a list                 *)
(*   cv2 key         a string, "none" when no key is pressed               *)
(***************************************************************************)
EXTENDS Integers, Sequences, FiniteSets, TLC

\* ------------------------------------------------------------------ bounds
\* rec_cfg["max_recovery_frames"] of the configuration the model runs with.
MaxRecoveryFrames == 2
\* trk_cfg["max_frames_lost"] of the configuration the model runs with.
MaxFramesLost == 2
\* PixelTracker._frames_lost is unbounded in the code; a frame whose update
\* would push it past this cap is not taken.
FramesLostCap == 2
\* Frames are told apart by a sequence number that wraps at this value.
FrameIds == 1

\* ------------------------------------------------------- mission states
IDLE == "IDLE"
TARGET_SELECT == "TARGET_SELECT"
TRACKING == "TRACKING"
TRACK_LOST == "TRACK_LOST"
STRIKE_ARMED == "STRIKE_ARMED"
TERMINAL == "TERMINAL"
COMPLETE == "COMPLETE"

NoneV == << >>

\* ---------------------------------------------------------------- floats
Abs(i) == IF i < 0 THEN -i ELSE i

RECURSIVE Gcd(_, _)
Gcd(a, b) == IF b = 0 THEN a ELSE Gcd(b, a % b)

\* The rational n/d in lowest terms with a positive denominator.
RNorm(n, d, g) ==
    IF d < 0 THEN << (-n) \div g, (-d) \div g >> ELSE << n \div g, d \div g >>

R(n, d) == RNorm(n, d, Gcd(Abs(n), Abs(d)))

RInt(i) == << i, 1 >>
RAdd(a, b) == R(a[1] * b[2] + b[1] * a[2], a[2] * b[2])
RSub(a, b) == R(a[1] * b[2] - b[1] * a[2], a[2] * b[2])
RMul(a, b) == R(a[1] * b[1], a[2] * b[2])
RDiv(a, b) == R(a[1] * b[2], a[2] * b[1])
RNeg(a) == << -a[1], a[2] >>
RLt(a, b) == a[1] * b[2] < b[1] * a[2]
RLe(a, b) == a[1] * b[2] <= b[1] * a[2]
RAbs(a) == << Abs(a[1]), a[2] >>
RMax(a, b) == IF RLt(a, b) THEN b ELSE a
RMin(a, b) == IF RLt(b, a) THEN b ELSE a

\* The exact square root of a rational that is a perfect square.
ISqrt(n) == CHOOSE r \in 0..n : r * r = n
RSqrt(a) == << ISqrt(a[1]), ISqrt(a[2]) >>

\* ------------------------------------------------------------- utils.py
bbox_center(bbox) ==
    << R(2 * bbox[1] + bbox[3], 2), R(2 * bbox[2] + bbox[4], 2) >>

bbox_area(bbox) == bbox[3] * bbox[4]

bbox_aspect_ratio(bbox) ==
    IF bbox[4] > 0 THEN R(bbox[3], bbox[4]) ELSE RInt(1)

Hypot(dx, dy) == RSqrt(RAdd(RMul(dx, dx), RMul(dy, dy)))

center_distance(c1, c2) == Hypot(RSub(c1[1], c2[1]), RSub(c1[2], c2[2]))

centroid_distance(bbox1, bbox2) ==
    center_distance(bbox_center(bbox1), bbox_center(bbox2))


\* ------------------------------------------------------------ tracker.py
\* trk_cfg["area_change_ratio"], trk_cfg["aspect_change_ratio"]: the defaults
\* of PixelTracker.__init__.
area_change_ratio == RInt(3)
aspect_change_ratio == RInt(2)

PixelTracker_new ==
    [ tracker |-> FALSE, init_bbox |-> NoneV, init_area |-> 0,
      init_aspect |-> RInt(1), frames_lost |-> 0, active |-> FALSE ]

\* An init that keeps the loss counter of the previous session.
PixelTracker_init_keeps_count(t, bbox) ==
    [ tracker |-> TRUE, init_bbox |-> bbox, init_area |-> bbox_area(bbox),
      init_aspect |-> bbox_aspect_ratio(bbox), frames_lost |-> t.frames_lost,
      active |-> TRUE ]

PixelTracker_init(t, bbox) ==
    [ tracker |-> TRUE, init_bbox |-> bbox, init_area |-> bbox_area(bbox),
      init_aspect |-> bbox_aspect_ratio(bbox), frames_lost |-> 0,
      active |-> TRUE ]

IMax(a, b) == IF a > b THEN a ELSE b
IMin(a, b) == IF a < b THEN a ELSE b

\* area_ratio and area_score of _compute_confidence.
area_score(area, init_area) ==
    RMax(RInt(0),
         RSub(RInt(1),
              RDiv(RSub(R(IMax(area, init_area),
                          IMax(IMin(area, init_area), 1)),
                        RInt(1)),
                   area_change_ratio)))

\* aspect_diff and aspect_score of _compute_confidence.
aspect_score(aspect, init_aspect) ==
    RMax(RInt(0),
         RSub(RInt(1),
              RDiv(RAbs(RSub(aspect, init_aspect)), aspect_change_ratio)))

PixelTracker_compute_confidence(t, bbox) ==
    IF t.init_area <= 0 THEN R(1, 2)
    ELSE IF bbox[3] <= 0 \/ bbox[4] <= 0 THEN RInt(0)
    ELSE RAdd(RMul(area_score(bbox_area(bbox), t.init_area), R(6, 10)),
              RMul(aspect_score(bbox_aspect_ratio(bbox), t.init_aspect),
                   R(4, 10)))

\* A low-confidence update that reports the loss at once.
PixelTracker_update_low_at_once(t1, bbox, confidence) ==
    [ t |-> t1, ok |-> FALSE, bbox |-> bbox, conf |-> confidence ]

\* update, from "if confidence < 0.3" on, t1 being the tracker with
\* _frames_lost incremented.
PixelTracker_update_low(t1, bbox, confidence) ==
    [ t |-> t1, ok |-> t1.frames_lost < MaxFramesLost, bbox |-> bbox,
      conf |-> confidence ]

PixelTracker_update_scored(t, bbox, confidence) ==
    IF RLt(confidence, R(3, 10))
    THEN PixelTracker_update_low([t EXCEPT !.frames_lost = @ + 1], bbox,
                                 confidence)
    ELSE [ t |-> [t EXCEPT !.frames_lost = 0], ok |-> TRUE, bbox |-> bbox,
           conf |-> confidence ]

\* prim is what the CSRT primitive answers: [ok, bbox].  The result carries
\* the tracker after the call and the returned (success, bbox, confidence).
PixelTracker_update(t, prim) ==
    IF ~t.active \/ ~t.tracker
    THEN [ t |-> t, ok |-> FALSE, bbox |-> NoneV, conf |-> RInt(0) ]
    ELSE IF ~prim.ok
    THEN [ t |-> [t EXCEPT !.frames_lost = @ + 1],
           ok |-> FALSE, bbox |-> NoneV, conf |-> RInt(0) ]
    ELSE PixelTracker_update_scored(
             t, prim.bbox, PixelTracker_compute_confidence(t, prim.bbox))

\* A reset that clears the loss counter and keeps the session.
PixelTracker_reset_keeps_session(t) == [t EXCEPT !.frames_lost = 0]

PixelTracker_reset(t) ==
    [t EXCEPT !.tracker = FALSE, !.active = FALSE, !.frames_lost = 0]

\* ----------------------------------------------------------- recovery.py
\* rec_cfg["max_centroid_distance"], rec_cfg["aspect_ratio_tolerance"] of
\* the configuration the model runs with.
max_centroid_distance == RInt(6)
aspect_ratio_tolerance == R(1, 2)

RecoveryManager_new ==
    [ last_bbox |-> NoneV, last_center |-> NoneV, last_aspect |-> NoneV ]

RecoveryManager_store_target(r, bbox) ==
    [ last_bbox |-> bbox, last_center |-> bbox_center(bbox),
      last_aspect |-> bbox_aspect_ratio(bbox) ]

\* A comparison that lets a later detection of equal score win.
find_best_match_last_wins(det_bbox, score, best) ==
    IF best.score = NoneV \/ RLe(score, best.score)
    THEN [ match |-> det_bbox, score |-> score ]
    ELSE best

\* best is [match, score], score NoneV standing for float('inf').
find_best_match_better(det_bbox, score, best) ==
    IF best.score = NoneV \/ RLt(score, best.score)
    THEN [ match |-> det_bbox, score |-> score ]
    ELSE best

\* A pass of the loop without the aspect gate.
find_best_match_no_aspect_gate(det_bbox, dist, aspect_diff, best) ==
    IF RLt(max_centroid_distance, dist) THEN best
    ELSE find_best_match_better(
             det_bbox, RAdd(dist, RMul(aspect_diff, RInt(100))), best)

find_best_match_scored(det_bbox, dist, aspect_diff, best) ==
    IF RLt(max_centroid_distance, dist) THEN best
    ELSE IF RLt(aspect_ratio_tolerance, aspect_diff) THEN best
    ELSE find_best_match_better(
             det_bbox, RAdd(dist, RMul(aspect_diff, RInt(100))), best)

\* One pass of the body of "for det in detections".
find_best_match_det(r, det_bbox, best) ==
    find_best_match_scored(
        det_bbox, centroid_distance(det_bbox, r.last_bbox),
        RAbs(RSub(bbox_aspect_ratio(det_bbox), r.last_aspect)), best)

\* The loop of find_best_match over detections[i..].
RECURSIVE find_best_match_loop(_, _, _, _)
find_best_match_loop(r, detections, i, best) ==
    IF i > Len(detections) THEN best.match
    ELSE find_best_match_loop(
             r, detections, i + 1,
             find_best_match_det(r, SubSeq(detections[i], 3, 6), best))

RecoveryManager_find_best_match(r, detections) ==
    IF r.last_bbox = NoneV \/ detections = << >> THEN NoneV
    ELSE find_best_match_loop(r, detections, 1,
                              [match |-> NoneV, score |-> NoneV])

RecoveryManager_has_reference(r) == r.last_bbox # NoneV


\* -------------------------------------------------------------- servo.py
\* pid_cfg gains, srv_cfg deadband / max_velocity / descent_rate: the
\* defaults of PIDController.__init__ and VisualServo.__init__.
kp == R(1, 2)
ki == R(1, 100)
kd == R(1, 10)
windup_limit == R(1, 2)
deadband == R(2, 100)
max_velocity == RInt(1)
descent_rate == R(-1, 2)

\* prev_time is NoneV before the first update and << 1 >> (some reading of
\* time.monotonic) after it.
PIDController_new ==
    [ integral |-> RInt(0), prev_error |-> RInt(0), prev_time |-> NoneV ]

\* elapsed is now - prev_time, the wall time since the previous update.
PIDController_dt(pid, elapsed) ==
    IF pid.prev_time = NoneV THEN R(33, 1000) ELSE RMax(elapsed, R(1, 1000))

PIDController_integral(pid, error, dt) ==
    RMax(RNeg(windup_limit),
         RMin(windup_limit, RAdd(pid.integral, RMul(error, dt))))

PIDController_output(pid, error, dt, integral) ==
    [ pid |-> [ integral |-> integral, prev_error |-> error,
                prev_time |-> << 1 >> ],
      out |-> RAdd(RAdd(RMul(kp, error), RMul(ki, integral)),
                   RDiv(RMul(kd, RSub(error, pid.prev_error)), dt)) ]

PIDController_step(pid, error, dt) ==
    PIDController_output(pid, error, dt,
                         PIDController_integral(pid, error, dt))

\* The result carries the controller after the call and the returned output.
PIDController_update(pid, error, elapsed) ==
    PIDController_step(pid, error, PIDController_dt(pid, elapsed))

PIDController_reset(pid) ==
    [ integral |-> RInt(0), prev_error |-> RInt(0), prev_time |-> NoneV ]

VisualServo_new ==
    [ pid_x |-> PIDController_new, pid_y |-> PIDController_new,
      error_x |-> RInt(0), error_y |-> RInt(0),
      cmd_vx |-> RInt(0), cmd_vy |-> RInt(0) ]

\* (c - size / 2) / (size / 2)
normalized_error(c, size) == RDiv(RSub(c, R(size, 2)), R(size, 2))

\* A velocity passed on as the controller computed it.
clamp_velocity_none(v) == v

\* max(-max_velocity, min(max_velocity, v))
clamp_velocity(v) == RMax(RNeg(max_velocity), RMin(max_velocity, v))

\* An axis without the deadband.
VisualServo_axis_no_deadband(pid, error, elapsed) ==
    PIDController_update(pid, error, elapsed)

\* One axis: the controller is updated only outside the deadband.
VisualServo_axis(pid, error, elapsed) ==
    IF RLt(deadband, RAbs(error))
    THEN PIDController_update(pid, error, elapsed)
    ELSE [ pid |-> pid, out |-> RInt(0) ]

VisualServo_command(error_x, error_y, ax, ay, vx, vy) ==
    [ s |-> [ pid_x |-> ax.pid, pid_y |-> ay.pid,
              error_x |-> error_x, error_y |-> error_y,
              cmd_vx |-> vx, cmd_vy |-> vy ],
      v |-> << vx, vy, descent_rate >> ]

VisualServo_axes(error_x, error_y, ax, ay) ==
    VisualServo_command(error_x, error_y, ax, ay,
                        clamp_velocity(RNeg(ay.out)), clamp_velocity(ax.out))

VisualServo_errors(s, error_x, error_y, elapsed) ==
    VisualServo_axes(error_x, error_y,
                     VisualServo_axis(s.pid_x, error_x, elapsed),
                     VisualServo_axis(s.pid_y, error_y, elapsed))

VisualServo_center(s, c, frame_size, elapsed) ==
    VisualServo_errors(s, normalized_error(c[1], frame_size[1]),
                       normalized_error(c[2], frame_size[2]), elapsed)

\* The result carries the servo after the call and the returned (vx, vy, vz).
VisualServo_update(s, target_bbox, frame_size, elapsed) ==
    VisualServo_center(s, bbox_center(target_bbox), frame_size, elapsed)

VisualServo_reset(s) ==
    [s EXCEPT !.pid_x = PIDController_reset(@),
              !.pid_y = PIDController_reset(@),
              !.error_x = RInt(0), !.error_y = RInt(0)]

\* --------------------------------------------------------- mavlink_io.py
\* format(v, "+.2f"): v in hundredths, rounded to nearest, ties to even.
Format2f_round(q, r, d) ==
    IF 2 * r < d THEN q
    ELSE IF 2 * r > d THEN q + 1
    ELSE IF q % 2 = 0 THEN q ELSE q + 1

Format2f_div(n, d, q) == Format2f_round(q, n - q * d, d)

Format2f(v) == Format2f_div(v[1] * 100, v[2], (v[1] * 100) \div v[2])

\* The display string "CMD: vx=.. vy=.. vz=..", as the three formatted
\* numbers; the empty string is << >>.
MAVLinkInterface_log_command(vx, vy, vz) ==
    << Format2f(vx), Format2f(vy), Format2f(vz) >>

\* ------------------------------------------------------------------ ui.py
\* The cursor geometry (cx, cy, roi_w, roi_h) of the ROI surface is not
\* modelled: the box a confirmation locks in is the input sel.
ROISelector_new ==
    [ active |-> FALSE, confirmed |-> FALSE, cancelled |-> FALSE,
      bbox |-> NoneV ]

ROISelector_activate(roi) ==
    [ active |-> TRUE, confirmed |-> FALSE, cancelled |-> FALSE,
      bbox |-> NoneV ]

ROISelector_deactivate(roi) == [roi EXCEPT !.active = FALSE]

ROISelector_confirm(roi, sel) ==
    [roi EXCEPT !.bbox = sel, !.confirmed = TRUE, !.active = FALSE]

\* confirm_sw is rc.get_switch(ch_confirm).
ROISelector_update_rc(roi, connected, confirm_sw, sel) ==
    IF ~roi.active \/ ~connected THEN roi
    ELSE IF confirm_sw THEN ROISelector_confirm(roi, sel)
    ELSE roi

ROISelector_update_keyboard(roi, key, sel) ==
    IF ~roi.active THEN roi
    ELSE IF key = "enter" THEN ROISelector_confirm(roi, sel)
    ELSE IF key = "esc" THEN [roi EXCEPT !.cancelled = TRUE, !.active = FALSE]
    ELSE roi

\* ------------------------------------------------------------ detector.py
\* Both mailboxes are queue.Queue(maxsize=1): sequences of length <= 1.
\* wpc is the worker's position, held the detections it has computed and
\* not yet published.
HailoDetector_new(hailo_available) ==
    [ input_queue |-> << >>, output_queue |-> << >>,
      hailo |-> hailo_available, wpc |-> "get", held |-> << >> ]

HailoDetector_request_inference(d, frame) ==
    [d EXCEPT !.input_queue = << frame >>]

\* A poll that reads the result and leaves it in the mailbox.
HailoDetector_peek_results(d) ==
    IF d.output_queue = << >> THEN [ d |-> d, res |-> NoneV ]
    ELSE [ d |-> d, res |-> << d.output_queue[1] >> ]

\* The result carries the detector after the call and the returned value:
\* NoneV for None, << list >> for a list.
HailoDetector_get_results(d) ==
    IF d.output_queue = << >> THEN [ d |-> d, res |-> NoneV ]
    ELSE [ d |-> [d EXCEPT !.output_queue = << >>],
           res |-> << d.output_queue[1] >> ]


\* ------------------------------------------------------------ rc_input.py
\* RCInput.get_switch_3way is called by main.py and defined nowhere in
\* rc_input.py: two threshold bands over the raw range, 0 = up, 1 = mid,
\* 2 = down.
\* A decoder with one threshold: the middle position never comes out.
get_switch_3way_no_mid(raw) == IF raw < 1700 THEN 0 ELSE 2

get_switch_3way(raw) ==
    IF raw < 1300 THEN 0 ELSE IF raw < 1700 THEN 1 ELSE 2

RCInput_get_switch(raw) == raw > 1700

\* ------------------------------------------------------------ input sets
\* Raw PWM readings of a channel.
RawValues == { 1000, 1500, 2000 }

\* The positions main() tells apart in what rc.get_switch_3way returns:
\* 0 = up, 1 = mid, 2 = down.
SwitchPositions == { 0, 1, 2 }

\* cv2.waitKey(1) & 0xFF: "none" stands for no key and for every key that
\* no handler of the loop reads.
Keys == { "none", "q", "r", "s", "a", "x", "enter", "esc" }

\* camera.frame_size of the configuration the model runs with.
frame_size == << 16, 16 >>

\* An 8 x 8 box on the frame centre (both errors 0, inside the deadband)
\* and one off it (error_x = 3/8, error_y = 1/2).
BoxCentre == << 4, 4, 8, 8 >>
BoxOff == << 7, 8, 8, 8 >>

\* The target of a run: what the ROI surface can lock in and what the CSRT
\* primitive can report.  Runs flown with the radio have the target on the
\* frame centre, runs flown from the keyboard have it off the centre.
Target(connected) == IF connected THEN BoxCentre ELSE BoxOff
SelectBoxes(connected) == { Target(connected) }
PrimAnswers(connected) ==
    { [ok |-> FALSE, bbox |-> NoneV],
      [ok |-> TRUE, bbox |-> Target(connected)] }

\* A box of width 0, which cv2's tracker may hand back with ok = True, and
\* the answers of a primitive that may report it.
BoxDegenerate == << 7, 8, 0, 8 >>
PrimAnswersDegenerate ==
    PrimAnswers(FALSE) \cup { [ok |-> TRUE, bbox |-> BoxDegenerate] }

\* The detection (class_id, confidence, x, y, w, h) the accelerator can
\* report, and the lists it can publish.
DetTarget(connected) ==
    << 0, R(9, 10) >> \o Target(connected)
DetLists(connected) ==
    { << >>, << DetTarget(connected) >> }

\* Wall time between two PID updates, in seconds.
ElapsedValues == { RInt(1) }


\* ---------------------------------------------------------------- state
\* main:     the locals of main(): state, current_bbox, current_confidence,
\*           last_detections, recovery_frames, cmd_str, prev_mode_pos,
\*           prev_state_pos, ai_mode, frame, key
\* tracker, recovery, servo, roi_selector, detector: the objects of main()
\* rc_connected: rc.connected
\* pc:       the section of the loop body that runs next
\* h:        history of the current frame (read by the properties only)
VARIABLES main, tracker, recovery, servo, roi_selector, detector,
          rc_connected, pc, h

vars == << main, tracker, recovery, servo, roi_selector, detector,
           rc_connected, pc, h >>

\* The objects one section of the loop body reads and writes.
Cur ==
    [ main |-> main, tracker |-> tracker, recovery |-> recovery,
      servo |-> servo, roi |-> roi_selector, detector |-> detector, h |-> h ]

Becomes(M) ==
    /\ main' = M.main
    /\ tracker' = M.tracker
    /\ recovery' = M.recovery
    /\ servo' = M.servo
    /\ roi_selector' = M.roi
    /\ detector' = M.detector
    /\ h' = M.h

\* rc_state: the mission state when the RC section began; first, mode_ev,
\* sw_ev: the branches the RC section took; upd: what tracker.update
\* reported; req: the frame handed to request_inference; sent:
\* send_velocity was called; pos: the positions of the mode switch and of
\* the state switch decoded by the RC section, None when it was skipped.
NoHistory ==
    [ rc_state |-> IDLE, first |-> FALSE, mode_ev |-> "none",
      sw_ev |-> "none", upd |-> "none", req |-> NoneV, sent |-> FALSE,
      pos |-> NoneV ]

\* The state main() has built when it enters the loop, given rc.connected
\* and HAILO_AVAILABLE.
InitWith(connected, hailo_available) ==
    /\ main = [ state |-> IDLE, current_bbox |-> NoneV,
                current_confidence |-> RInt(0), last_detections |-> NoneV,
                recovery_frames |-> 0, cmd_str |-> << >>,
                prev_mode_pos |-> -1, prev_state_pos |-> -1,
                ai_mode |-> FALSE, frame |-> 0, key |-> "none" ]
    /\ tracker = PixelTracker_new
    /\ recovery = RecoveryManager_new
    /\ servo = VisualServo_new
    /\ roi_selector = ROISelector_new
    /\ rc_connected = connected
    /\ detector = HailoDetector_new(hailo_available)
    /\ pc = "frame"
    /\ h = NoHistory

\* A run flown with the radio, detections from the stub worker.
InitRadio == InitWith(TRUE, FALSE)

\* A run flown from the keyboard, detections from the accelerator.
InitKeyboard == InitWith(FALSE, TRUE)

\* ------------------------------------------------- main.py: key handlers
\* key == ord('r')
KeyReset(M) ==
    [M EXCEPT !.main.state = IDLE,
              !.tracker = PixelTracker_reset(@),
              !.servo = VisualServo_reset(@),
              !.roi = ROISelector_deactivate(@),
              !.main.current_bbox = NoneV,
              !.main.current_confidence = RInt(0),
              !.main.recovery_frames = 0,
              !.main.cmd_str = << >>]

\* camera.read(), cv2.waitKey and the global key handlers.
FrameStep(M, key) ==
    LET M0 == [M EXCEPT !.main.frame = (@ + 1) % FrameIds,
                        !.main.key = key]
    IN  IF key = "r" THEN KeyReset(M0) ELSE M0

\* ------------------------------------------------ main.py: RC switches
\* A first read that stores the mode switch only.
RCFirstRead_mode_only(M, mode_pos, state_pos) ==
    IF M.main.prev_mode_pos = -1
    THEN [M EXCEPT !.main.prev_mode_pos = mode_pos,
                   !.main.ai_mode = (mode_pos = 2),
                   !.h.first = TRUE]
    ELSE M

RCFirstRead(M, mode_pos, state_pos) ==
    IF M.main.prev_mode_pos = -1
    THEN [M EXCEPT !.main.prev_mode_pos = mode_pos,
                   !.main.prev_state_pos = state_pos,
                   !.main.ai_mode = (mode_pos = 2),
                   !.h.first = TRUE]
    ELSE M

\* mode_pos != 2 and ai_mode: the immediate override.
ModeOverride(M) ==
    [M EXCEPT !.main.ai_mode = FALSE,
              !.main.state = IDLE,
              !.tracker = PixelTracker_reset(@),
              !.servo = VisualServo_reset(@),
              !.roi = ROISelector_deactivate(@),
              !.main.current_bbox = NoneV,
              !.main.current_confidence = RInt(0),
              !.main.recovery_frames = 0,
              !.main.cmd_str = << >>]

RCModeSwitch(M, mode_pos) ==
    IF mode_pos # M.main.prev_mode_pos
    THEN LET M1 == IF mode_pos = 2 /\ ~M.main.ai_mode
                   THEN [M EXCEPT !.main.ai_mode = TRUE,
                                  !.h.mode_ev = "ai_on"]
                   ELSE IF mode_pos # 2 /\ M.main.ai_mode
                   THEN [ModeOverride(M) EXCEPT !.h.mode_ev = "override"]
                   ELSE [M EXCEPT !.h.mode_ev = "moved"]
         IN  [M1 EXCEPT !.main.prev_mode_pos = mode_pos]
    ELSE M

\* Up -> Mid without the test on IDLE.
SwitchSelect_unguarded(M) ==
    [M EXCEPT !.roi = ROISelector_activate(@),
              !.main.state = TARGET_SELECT]

\* Up -> Mid
SwitchSelect(M) ==
    IF M.main.state = IDLE
    THEN [M EXCEPT !.roi = ROISelector_activate(@),
                   !.main.state = TARGET_SELECT]
    ELSE M

\* Mid -> Down with "if" in the place of "elif": arms and executes on one
\* edge.
SwitchArmExecute_fallthrough(M) ==
    IF M.main.state \in { TRACKING, STRIKE_ARMED }
    THEN [M EXCEPT !.main.state = TERMINAL]
    ELSE M

\* Mid -> Down
SwitchArmExecute(M) ==
    IF M.main.state = TRACKING
    THEN [M EXCEPT !.main.state = STRIKE_ARMED]
    ELSE IF M.main.state = STRIKE_ARMED
    THEN [M EXCEPT !.main.state = TERMINAL]
    ELSE M

\* Any -> Up with the reset of the recovery timeout: state, tracker and
\* current_bbox only.
SwitchReset_partial(M) ==
    [M EXCEPT !.main.state = IDLE,
              !.tracker = PixelTracker_reset(@),
              !.main.current_bbox = NoneV]

\* Any -> Up
SwitchReset(M) ==
    [M EXCEPT !.main.state = IDLE,
              !.tracker = PixelTracker_reset(@),
              !.servo = VisualServo_reset(@),
              !.roi = ROISelector_deactivate(@),
              !.main.current_bbox = NoneV,
              !.main.current_confidence = RInt(0),
              !.main.recovery_frames = 0,
              !.main.cmd_str = << >>]

RCStateSwitch(M, state_pos) ==
    IF M.main.ai_mode /\ state_pos # M.main.prev_state_pos
    THEN LET M1 == IF M.main.prev_state_pos = 0 /\ state_pos = 1
                   THEN [SwitchSelect(M) EXCEPT !.h.sw_ev = "up_mid"]
                   ELSE IF M.main.prev_state_pos = 1 /\ state_pos = 2
                   THEN [SwitchArmExecute(M) EXCEPT !.h.sw_ev = "mid_down"]
                   ELSE IF state_pos = 0
                   THEN [SwitchReset(M) EXCEPT !.h.sw_ev = "to_up"]
                   ELSE [M EXCEPT !.h.sw_ev = "moved"]
         IN  [M1 EXCEPT !.main.prev_state_pos = state_pos]
    ELSE M

\* if rc.connected: ... with the two switch positions just decoded.
RCStep(M, mode_pos, state_pos) ==
    RCStateSwitch(RCModeSwitch(RCFirstRead(M, mode_pos, state_pos), mode_pos),
                  state_pos)

\* The RC section: skipped when the receiver has heard nothing.
RCSection(M, connected, mode_pos, state_pos) ==
    IF connected
    THEN RCStep([M EXCEPT !.h.rc_state = M.main.state,
                          !.h.pos = << mode_pos, state_pos >>],
                mode_pos, state_pos)
    ELSE [M EXCEPT !.h.rc_state = M.main.state]


\* ------------------------------------------------ main.py: state machine
SM_IDLE(M) ==
    IF M.main.key = "s"
    THEN [M EXCEPT !.roi = ROISelector_activate(@),
                   !.main.state = TARGET_SELECT]
    ELSE M

\* A confirmation that leaves the servo as the previous session left it.
SM_TARGET_SELECT_no_servo_reset(M, confirm_sw, sel) ==
    LET roi1 == ROISelector_update_rc(M.roi, rc_connected, confirm_sw, sel)
        roi2 == ROISelector_update_keyboard(roi1, M.main.key, sel)
        M1 == [M EXCEPT !.roi = roi2]
    IN  IF roi2.confirmed
        THEN [M1 EXCEPT !.tracker = PixelTracker_init(@, roi2.bbox),
                        !.recovery = RecoveryManager_store_target(@, roi2.bbox),
                        !.main.current_bbox = roi2.bbox,
                        !.main.state = TRACKING]
        ELSE IF roi2.cancelled
        THEN [M1 EXCEPT !.main.state = IDLE]
        ELSE M1

SM_TARGET_SELECT(M, confirm_sw, sel) ==
    LET roi1 == ROISelector_update_rc(M.roi, rc_connected, confirm_sw, sel)
        roi2 == ROISelector_update_keyboard(roi1, M.main.key, sel)
        M1 == [M EXCEPT !.roi = roi2]
    IN  IF roi2.confirmed
        THEN [M1 EXCEPT !.tracker = PixelTracker_init(@, roi2.bbox),
                        !.recovery = RecoveryManager_store_target(@, roi2.bbox),
                        !.main.current_bbox = roi2.bbox,
                        !.servo = VisualServo_reset(@),
                        !.main.state = TRACKING]
        ELSE IF roi2.cancelled
        THEN [M1 EXCEPT !.main.state = IDLE]
        ELSE M1

\* A successful update in TRACKING or STRIKE_ARMED that also calls
\* send_velocity.
TrackOk_sends(M, u, elapsed) ==
    LET sv == VisualServo_update(M.servo, u.bbox, frame_size, elapsed)
    IN  [M EXCEPT !.main.current_bbox = u.bbox,
                  !.recovery = RecoveryManager_store_target(@, u.bbox),
                  !.servo = sv.s,
                  !.h.sent = TRUE,
                  !.main.cmd_str =
                      MAVLinkInterface_log_command(sv.s.cmd_vx, sv.s.cmd_vy,
                                                   descent_rate)]

\* A successful update that leaves the target reference as it was.
TrackOk_no_store(M, u, elapsed) ==
    LET sv == VisualServo_update(M.servo, u.bbox, frame_size, elapsed)
    IN  [M EXCEPT !.main.current_bbox = u.bbox,
                  !.servo = sv.s,
                  !.main.cmd_str =
                      MAVLinkInterface_log_command(sv.s.cmd_vx, sv.s.cmd_vy,
                                                   descent_rate)]

\* tracker.update succeeded in TRACKING or STRIKE_ARMED.
TrackOk(M, u, elapsed) ==
    LET sv == VisualServo_update(M.servo, u.bbox, frame_size, elapsed)
    IN  [M EXCEPT !.main.current_bbox = u.bbox,
                  !.recovery = RecoveryManager_store_target(@, u.bbox),
                  !.servo = sv.s,
                  !.main.cmd_str =
                      MAVLinkInterface_log_command(sv.s.cmd_vx, sv.s.cmd_vy,
                                                   descent_rate)]

\* tracker.update failed in TRACKING or STRIKE_ARMED.
TrackLost(M) ==
    [M EXCEPT !.detector = HailoDetector_request_inference(@, M.main.frame),
              !.h.req = << M.main.frame >>,
              !.main.state = TRACK_LOST,
              !.main.recovery_frames = 0]

\* The arm handler also taking the execute key.
KeyArm_or_execute(M) ==
    IF M.main.key = "a" THEN [M EXCEPT !.main.state = STRIKE_ARMED]
    ELSE IF M.main.key = "x" THEN [M EXCEPT !.main.state = TERMINAL]
    ELSE M

\* if key == ord('a')
KeyArm(M) ==
    IF M.main.key = "a" THEN [M EXCEPT !.main.state = STRIKE_ARMED] ELSE M

\* An execute handler that reports the mission complete.
KeyExecute_completes(M) ==
    IF M.main.key = "x" THEN [M EXCEPT !.main.state = COMPLETE] ELSE M

\* if key == ord('x')
KeyExecute(M) ==
    IF M.main.key = "x" THEN [M EXCEPT !.main.state = TERMINAL] ELSE M

SM_TRACKING(M, prim, elapsed) ==
    LET u == PixelTracker_update(M.tracker, prim)
        M1 == [M EXCEPT !.tracker = u.t,
                        !.main.current_confidence = u.conf,
                        !.h.upd = IF u.ok THEN "ok" ELSE "fail"]
        M2 == IF u.ok THEN TrackOk(M1, u, elapsed) ELSE TrackLost(M1)
    IN  KeyArm(M2)

SM_STRIKE_ARMED(M, prim, elapsed) ==
    LET u == PixelTracker_update(M.tracker, prim)
        M1 == [M EXCEPT !.tracker = u.t,
                        !.main.current_confidence = u.conf,
                        !.h.upd = IF u.ok THEN "ok" ELSE "fail"]
        M2 == IF u.ok THEN TrackOk(M1, u, elapsed) ELSE TrackLost(M1)
    IN  KeyExecute(M2)

\* A timeout that gives up one frame late.
RecoveryTimeout_late(M) ==
    IF M.main.recovery_frames > MaxRecoveryFrames
    THEN [M EXCEPT !.main.state = IDLE,
                   !.tracker = PixelTracker_reset(@),
                   !.main.current_bbox = NoneV]
    ELSE M

\* if recovery_frames >= max_recovery_frames
RecoveryTimeout(M) ==
    IF M.main.recovery_frames >= MaxRecoveryFrames
    THEN [M EXCEPT !.main.state = IDLE,
                   !.tracker = PixelTracker_reset(@),
                   !.main.current_bbox = NoneV]
    ELSE M

\* A TRACK_LOST branch that asks the detector once, at the loss, and never
\* again.
SM_TRACK_LOST_no_resubmit(M) ==
    LET g == HailoDetector_get_results(M.detector)
        detections == g.res
        M1 == [M EXCEPT !.main.recovery_frames = @ + 1,
                        !.detector = g.d,
                        !.main.last_detections =
                            IF detections # NoneV THEN detections ELSE @]
        resubmit == M1
        M2 == IF detections # NoneV /\ detections[1] # << >>
              THEN LET match == RecoveryManager_find_best_match(
                                    M1.recovery, detections[1])
                   IN  IF match # NoneV
                       THEN [M1 EXCEPT !.tracker = PixelTracker_init(@, match),
                                       !.main.current_bbox = match,
                                       !.main.state = TRACKING]
                       ELSE resubmit
              ELSE IF detections # NoneV THEN resubmit
              ELSE M1
    IN  RecoveryTimeout(M2)

SM_TRACK_LOST(M) ==
    LET g == HailoDetector_get_results(M.detector)
        detections == g.res
        M1 == [M EXCEPT !.main.recovery_frames = @ + 1,
                        !.detector = g.d,
                        !.main.last_detections =
                            IF detections # NoneV THEN detections ELSE @]
        resubmit ==
            [M1 EXCEPT !.detector =
                           HailoDetector_request_inference(@, M.main.frame),
                       !.h.req = << M.main.frame >>]
        M2 == IF detections # NoneV /\ detections[1] # << >>
              THEN LET match == RecoveryManager_find_best_match(
                                    M1.recovery, detections[1])
                   IN  IF match # NoneV
                       THEN [M1 EXCEPT !.tracker = PixelTracker_init(@, match),
                                       !.main.current_bbox = match,
                                       !.main.state = TRACKING]
                       ELSE resubmit
              ELSE IF detections # NoneV THEN resubmit
              ELSE M1
    IN  RecoveryTimeout(M2)

\* A terminal branch with the loss handling of the armed branch.
SM_TERMINAL_as_armed(M, prim, elapsed) == SM_STRIKE_ARMED(M, prim, elapsed)

SM_TERMINAL(M, prim, elapsed) ==
    LET u == PixelTracker_update(M.tracker, prim)
        M1 == [M EXCEPT !.tracker = u.t,
                        !.main.current_confidence = u.conf,
                        !.h.upd = IF u.ok THEN "ok" ELSE "fail"]
    IN  IF u.ok
        THEN LET sv == VisualServo_update(M1.servo, u.bbox, frame_size,
                                          elapsed)
             IN  [M1 EXCEPT !.main.current_bbox = u.bbox,
                            !.recovery =
                                RecoveryManager_store_target(@, u.bbox),
                            !.servo = sv.s,
                            !.h.sent = TRUE,
                            !.main.cmd_str =
                                MAVLinkInterface_log_command(
                                    sv.v[1], sv.v[2], sv.v[3])]
        ELSE LET d1 == HailoDetector_request_inference(M1.detector,
                                                       M.main.frame)
                 g == HailoDetector_get_results(d1)
                 M2 == [M1 EXCEPT !.detector = g.d,
                                  !.h.req = << M.main.frame >>]
             IN  IF g.res # NoneV /\ g.res[1] # << >>
                 THEN LET match == RecoveryManager_find_best_match(
                                       M2.recovery, g.res[1])
                      IN  IF match # NoneV
                          THEN [M2 EXCEPT !.tracker =
                                              PixelTracker_init(@, match),
                                          !.main.current_bbox = match]
                          ELSE M2
                 ELSE M2

SM_COMPLETE(M) == [M EXCEPT !.main.cmd_str = << 0 >>]

\* The if / elif chain on state.
StateMachineStep(M, prim, confirm_sw, sel, elapsed) ==
    LET M0 == M
    IN  CASE M.main.state = IDLE -> SM_IDLE(M0)
          [] M.main.state = TARGET_SELECT ->
                 SM_TARGET_SELECT(M0, confirm_sw, sel)
          [] M.main.state = TRACKING -> SM_TRACKING(M0, prim, elapsed)
          [] M.main.state = TRACK_LOST -> SM_TRACK_LOST(M0)
          [] M.main.state = STRIKE_ARMED -> SM_STRIKE_ARMED(M0, prim, elapsed)
          [] M.main.state = TERMINAL -> SM_TERMINAL(M0, prim, elapsed)
          [] M.main.state = COMPLETE -> SM_COMPLETE(M0)
          [] OTHER -> M0

\* ---------------------------------------------------------------- actions
\* One iteration of the while loop runs Frame, RCSwitchHandling,
\* StateMachine and Draw in this order.  The local key is dead once the
\* state machine section has run (the next iteration assigns it before it
\* reads it): StateMachine puts it back to "none".
Frame ==
    /\ pc = "frame"
    /\ \E key \in Keys :
         IF key = "q"
         THEN /\ pc' = "quit"
              /\ main' = [main EXCEPT !.key = key,
                                      !.frame = (@ + 1) % FrameIds]
              /\ UNCHANGED << tracker, recovery, servo, roi_selector,
                              detector, h >>
         ELSE /\ pc' = "rc"
              /\ Becomes(FrameStep(Cur, key))
    /\ UNCHANGED rc_connected

RCSwitchHandling ==
    /\ pc = "rc"
    /\ pc' = "sm"
    /\ IF rc_connected
       THEN \E mode_pos \in SwitchPositions, state_pos \in SwitchPositions :
              Becomes(RCSection(Cur, TRUE, mode_pos, state_pos))
       ELSE Becomes(RCSection(Cur, FALSE, -1, -1))
    /\ UNCHANGED rc_connected

\* The state machine section, given what the CSRT primitive may answer.
StateMachineWith(answers) ==
    /\ pc = "sm"
    /\ pc' = "draw"
    /\ \E prim \in answers, raw_confirm \in RawValues,
          sel \in SelectBoxes(rc_connected), elapsed \in ElapsedValues :
         LET M == StateMachineStep(Cur, prim, RCInput_get_switch(raw_confirm),
                                   sel, elapsed)
         IN  /\ M.tracker.frames_lost <= FramesLostCap
             /\ Becomes([M EXCEPT !.main.key = "none"])
    /\ UNCHANGED rc_connected

StateMachine == StateMachineWith(PrimAnswers(rc_connected))

\* overlay.draw and cv2.imshow read the state and change none of it; the
\* history of the iteration ends here.
Draw ==
    /\ pc = "draw"
    /\ pc' = "frame"
    /\ h' = NoHistory
    /\ UNCHANGED << main, tracker, recovery, servo, roi_selector, detector,
                    rc_connected >>

\* A stub that answers as the accelerator does.
WorkerResults_any(hailo, connected) == DetLists(connected)

\* What the worker computes for a frame: _postprocess of the accelerator's
\* output in _inference_loop, the literal [] in _stub_loop.
WorkerResults(hailo, connected) ==
    IF hailo THEN DetLists(connected) ELSE { << >> }

\* The worker thread (_inference_loop, or _stub_loop without the
\* accelerator): take the pending frame, drop the unread result, publish.
\* Frame, RCSwitchHandling and Draw touch no mailbox, so a worker step taken
\* between two sections of one iteration commutes with them: worker steps
\* are taken at the head of the loop.
WorkerGet ==
    /\ pc = "frame"
    /\ detector.wpc = "get"
    /\ detector.input_queue # << >>
    /\ \E dets \in WorkerResults(detector.hailo, rc_connected) :
         detector' = [detector EXCEPT !.input_queue = << >>,
                                      !.held = << dets >>,
                                      !.wpc = "put"]
    /\ UNCHANGED << main, tracker, recovery, servo, roi_selector,
                    rc_connected, pc, h >>

\* output_queue.get_nowait() (drop the unread result), output_queue.put().
WorkerPut ==
    /\ pc = "frame"
    /\ detector.wpc = "put"
    /\ detector' = [detector EXCEPT !.output_queue = << detector.held[1] >>,
                                    !.held = << >>,
                                    !.wpc = "get"]
    /\ UNCHANGED << main, tracker, recovery, servo, roi_selector,
                    rc_connected, pc, h >>

Next ==
    \/ Frame
    \/ RCSwitchHandling
    \/ StateMachine
    \/ Draw
    \/ WorkerGet
    \/ WorkerPut

SpecRadio == InitRadio /\ [][Next]_vars

SpecKeyboard == InitKeyboard /\ [][Next]_vars

\* A run flown from the keyboard with the stub worker, on a primitive that
\* may report a degenerate box.
InitDegenerate == InitWith(FALSE, FALSE)

StateMachineDegenerate == StateMachineWith(PrimAnswersDegenerate)

NextDegenerate ==
    \/ Frame
    \/ RCSwitchHandling
    \/ StateMachineDegenerate
    \/ Draw
    \/ WorkerGet
    \/ WorkerPut

SpecDegenerate == InitDegenerate /\ [][NextDegenerate]_vars


\* ------------------------------------------- detector.py: the two threads
\* The mailboxes between the control thread and the worker, one queue
\* operation per step.  The control thread is a client that calls
\* request_inference and get_results in any order; frames are numbered in
\* the order of submission and the result of frame n is written n.
\*   main      submitted: frames handed to request_inference so far
\*             polled: what the last get_results returned
\*   pc        "ctl" between two calls, "req_put" inside request_inference
\*             between the get_nowait and the put
\*   detector  wpc: "get", "infer", "drop", "put", the worker's next
\*             operation; held: the frame taken, then its result
\*   h         taken: the last frame the worker took; published: the last
\*             result put into the output mailbox; unpolled: results
\*             published since the last poll (counted up to 2); delivered:
\*             the results the polls returned, in order

\* Frames the client submits in one run.
MaxSubmit == 4

\* queue.Queue(maxsize=1)
QueueMaxsize == 1

\* Queue.get_nowait() with queue.Empty swallowed: the queue afterwards.
Queue_drop(q) == IF q = << >> THEN q ELSE Tail(q)

Queue_full(q) == Len(q) >= QueueMaxsize

\* A first half that drops nothing.
request_inference_nodrop(d) == d

\* A worker that publishes without dropping the unread result.
inference_loop_nodrop(d) ==
    [d EXCEPT !.wpc = "put"]

\* request_inference, first half: self._input_queue.get_nowait()
request_inference_drop(d) ==
    [d EXCEPT !.input_queue = Queue_drop(@)]

\* request_inference, second half: self._input_queue.put(...)
request_inference_put(d, frame) ==
    [d EXCEPT !.input_queue = Append(@, frame)]

\* The worker's self._output_queue.get_nowait()
inference_loop_drop(d) ==
    [d EXCEPT !.output_queue = Queue_drop(@), !.wpc = "put"]

InitDetector ==
    /\ main = [ submitted |-> 0, polled |-> NoneV ]
    /\ detector = HailoDetector_new(TRUE)
    /\ pc = "ctl"
    /\ h = [ taken |-> 0, published |-> 0, unpolled |-> 0,
            delivered |-> << >> ]
    /\ tracker = PixelTracker_new
    /\ recovery = RecoveryManager_new
    /\ servo = VisualServo_new
    /\ roi_selector = ROISelector_new
    /\ rc_connected = FALSE

RequestInferenceDrop ==
    /\ pc = "ctl"
    /\ main.submitted < MaxSubmit
    /\ pc' = "req_put"
    /\ main' = [main EXCEPT !.submitted = @ + 1]
    /\ detector' = request_inference_drop(detector)
    /\ UNCHANGED << tracker, recovery, servo, roi_selector, rc_connected, h >>

\* Queue.put blocks while the queue is full.
RequestInferencePut ==
    /\ pc = "req_put"
    /\ ~Queue_full(detector.input_queue)
    /\ pc' = "ctl"
    /\ detector' = request_inference_put(detector, main.submitted)
    /\ UNCHANGED << main, tracker, recovery, servo, roi_selector,
                    rc_connected, h >>

GetResults ==
    /\ pc = "ctl"
    /\ pc' = "ctl"
    /\ detector' = HailoDetector_get_results(detector).d
    /\ main' = [main EXCEPT !.polled = HailoDetector_get_results(detector).res]
    /\ h' = [h EXCEPT !.unpolled = 0,
                      !.delivered =
                          IF HailoDetector_get_results(detector).res = NoneV
                          THEN @
                          ELSE Append(@, HailoDetector_get_results(
                                             detector).res[1])]
    /\ UNCHANGED << tracker, recovery, servo, roi_selector, rc_connected >>

\* self._input_queue.get(timeout=0.1); queue.Empty sends the worker round
\* the loop again.
InferenceLoopGet ==
    /\ detector.wpc = "get"
    /\ detector.input_queue # << >>
    /\ detector' = [detector EXCEPT !.input_queue = Tail(@),
                                    !.held = << detector.input_queue[1] >>,
                                    !.wpc = "infer"]
    /\ h' = [h EXCEPT !.taken = detector.input_queue[1]]
    /\ UNCHANGED << main, tracker, recovery, servo, roi_selector,
                    rc_connected, pc >>

\* _preprocess, pipeline.infer, _postprocess
InferenceLoopInfer ==
    /\ detector.wpc = "infer"
    /\ detector' = [detector EXCEPT !.wpc = "drop"]
    /\ UNCHANGED << main, tracker, recovery, servo, roi_selector,
                    rc_connected, pc, h >>

InferenceLoopDrop ==
    /\ detector.wpc = "drop"
    /\ detector' = inference_loop_drop(detector)
    /\ UNCHANGED << main, tracker, recovery, servo, roi_selector,
                    rc_connected, pc, h >>

\* self._output_queue.put(detections), blocking while the queue is full.
InferenceLoopPut ==
    /\ detector.wpc = "put"
    /\ ~Queue_full(detector.output_queue)
    /\ detector' = [detector EXCEPT !.output_queue = Append(@, detector.held[1]),
                                    !.held = << >>,
                                    !.wpc = "get"]
    /\ h' = [h EXCEPT !.published = detector.held[1],
                      !.unpolled = IF @ < 2 THEN @ + 1 ELSE @]
    /\ UNCHANGED << main, tracker, recovery, servo, roi_selector,
                    rc_connected, pc >>

NextDetector ==
    \/ RequestInferenceDrop
    \/ RequestInferencePut
    \/ GetResults
    \/ InferenceLoopGet
    \/ InferenceLoopInfer
    \/ InferenceLoopDrop
    \/ InferenceLoopPut

SpecDetector == InitDetector /\ [][NextDetector]_vars


\* ------------------------------------------------ tracker.py on its own
\* A client that calls init, update and reset in any order.
\*   tracker   the PixelTracker
\*   h         op: the last call; arg: the bbox handed to init; ok, bbox,
\*             conf: what the last update returned; counted: updates since
\*             the last init, reset or update at confidence >= 0.3 that
\*             went through the loss counter

\* PixelTracker._frames_lost is unbounded in the code; the client stops
\* calling update at this value.
TrackerLostCap == 6

\* Boxes the client inits on and the primitive reports.  A box scores 1.0
\* against its own snapshot; the square and the narrow box score 0.25
\* against each other, the small box 0.4 against the square one.  A box of
\* width 0 scores 0.0, and every box scores 0.5 against the snapshot of it.
BoxSquare == << 4, 4, 8, 8 >>
BoxNarrow == << 7, 4, 2, 8 >>
BoxWide == << 3, 5, 10, 6 >>
BoxSmall == << 6, 6, 4, 4 >>
TrackerBoxes == { BoxSquare, BoxNarrow, BoxWide, BoxSmall, BoxDegenerate }
TrackerAnswers ==
    { [ok |-> FALSE, bbox |-> NoneV] }
        \cup { [ok |-> TRUE, bbox |-> b] : b \in TrackerBoxes }

NoCall ==
    [ op |-> "none", arg |-> NoneV, ok |-> FALSE, bbox |-> NoneV,
      conf |-> RInt(0), counted |-> 0 ]

InitTracker ==
    /\ tracker = PixelTracker_new
    /\ h = NoCall
    /\ pc = "client"
    /\ main = NoneV
    /\ recovery = RecoveryManager_new
    /\ servo = VisualServo_new
    /\ roi_selector = ROISelector_new
    /\ detector = HailoDetector_new(FALSE)
    /\ rc_connected = FALSE

TrackerInit ==
    /\ \E bbox \in TrackerBoxes :
         /\ tracker' = PixelTracker_init(tracker, bbox)
         /\ h' = [NoCall EXCEPT !.op = "init", !.arg = bbox]
    /\ UNCHANGED << main, recovery, servo, roi_selector, detector,
                    rc_connected, pc >>

\* What h.counted becomes in an update that returns u.
CountedAfter(t, prim, u, counted) ==
    IF ~t.active \/ ~t.tracker THEN counted
    ELSE IF prim.ok /\ ~RLt(u.conf, R(3, 10)) THEN 0
    ELSE counted + 1

TrackerUpdateCall(prim, u) ==
    /\ u.t.frames_lost <= TrackerLostCap
    /\ tracker' = u.t
    /\ h' = [ op |-> "update", arg |-> NoneV, ok |-> u.ok, bbox |-> u.bbox,
              conf |-> u.conf,
              counted |-> CountedAfter(tracker, prim, u, h.counted) ]

TrackerUpdate ==
    /\ \E prim \in TrackerAnswers :
         TrackerUpdateCall(prim, PixelTracker_update(tracker, prim))
    /\ UNCHANGED << main, recovery, servo, roi_selector, detector,
                    rc_connected, pc >>

TrackerReset ==
    /\ tracker' = PixelTracker_reset(tracker)
    /\ h' = [NoCall EXCEPT !.op = "reset"]
    /\ UNCHANGED << main, recovery, servo, roi_selector, detector,
                    rc_connected, pc >>

NextTracker ==
    \/ TrackerInit
    \/ TrackerUpdate
    \/ TrackerReset

SpecTracker == InitTracker /\ [][NextTracker]_vars

\* ----------------------------------------------- recovery.py on its own
\* A client that holds a detection list, may store the reference and calls
\* find_best_match once.
\*   recovery  the RecoveryManager
\*   h         dets: the list the client holds; op: "find" once
\*             find_best_match was called; match: what it returned

\* Longest detection list handed to find_best_match.
MaxDets == 3

\* Detections (class_id, confidence, x, y, w, h) around the reference
\* BoxSquare, by centroid distance d and aspect difference a:
\*   DetSame   d 0, a 0        DetNear, DetNear2   d 5, a 0
\*   DetEdge   d 6 (the gate)  DetFar              d 8 (rejected)
\*   DetSkew   d 0, a 0.25     DetWideOk           d 0, a 0.5 (the gate)
\*   DetWide   d 0, a 1 (rejected)
DetSame == << 0, R(9, 10), 4, 4, 8, 8 >>
DetNear == << 0, R(9, 10), 7, 8, 8, 8 >>
DetNear2 == << 1, R(8, 10), 8, 7, 8, 8 >>
DetEdge == << 0, R(7, 10), 10, 4, 8, 8 >>
DetFar == << 2, R(9, 10), 12, 4, 8, 8 >>
DetSkew == << 0, R(6, 10), 3, 4, 10, 8 >>
DetWideOk == << 0, R(5, 10), 2, 4, 12, 8 >>
DetWide == << 3, R(9, 10), 0, 4, 16, 8 >>
Detections ==
    { DetSame, DetNear, DetNear2, DetEdge, DetFar, DetSkew, DetWideOk,
      DetWide }

DetectionLists ==
    UNION { [1 .. n -> Detections] : n \in 0 .. MaxDets }

InitRecovery ==
    /\ recovery = RecoveryManager_new
    /\ \E dets \in DetectionLists :
         h = [ op |-> "none", dets |-> dets, match |-> NoneV ]
    /\ pc = "client"
    /\ main = NoneV
    /\ tracker = PixelTracker_new
    /\ servo = VisualServo_new
    /\ roi_selector = ROISelector_new
    /\ detector = HailoDetector_new(FALSE)
    /\ rc_connected = FALSE

RecoveryStoreTarget ==
    /\ h.op = "none"
    /\ recovery' = RecoveryManager_store_target(recovery, BoxSquare)
    /\ UNCHANGED << main, tracker, servo, roi_selector, detector,
                    rc_connected, pc, h >>

RecoveryFindBestMatch ==
    /\ h.op = "none"
    /\ h' = [h EXCEPT !.op = "find",
                      !.match = RecoveryManager_find_best_match(recovery,
                                                                h.dets)]
    /\ UNCHANGED << main, tracker, recovery, servo, roi_selector, detector,
                    rc_connected, pc >>

NextRecovery ==
    \/ RecoveryStoreTarget
    \/ RecoveryFindBestMatch

SpecRecovery == InitRecovery /\ [][NextRecovery]_vars

\* -------------------------------------------------- servo.py on its own
\* A client that calls VisualServo.update and VisualServo.reset in any
\* order, on a 100 x 100 frame.
\*   servo     the VisualServo
\*   h         op: the last call; bbox: the box handed to update; v: the
\*             (vx, vy, vz) it returned

ServoFrameSize == << 100, 100 >>

\* Target boxes by the normalized error of their centre:
\*   ServoCentre  (0, 0)             ServoInside   (0.01, 0)
\*   ServoAtBand  (0.02, 0)          ServoOutside  (0.04, 0)
\*   ServoAhead   (0, -0.8)          ServoFar      (0.8, -0.8)
ServoCentre == << 49, 49, 2, 2 >>
ServoInside == << 49, 49, 3, 2 >>
ServoAtBand == << 50, 49, 2, 2 >>
ServoOutside == << 51, 49, 2, 2 >>
ServoAhead == << 49, 9, 2, 2 >>
ServoFar == << 89, 9, 2, 2 >>
ServoBoxes ==
    { ServoCentre, ServoInside, ServoAtBand, ServoOutside, ServoAhead,
      ServoFar }

InitServo ==
    /\ servo = VisualServo_new
    /\ h = [ op |-> "none", bbox |-> NoneV, v |-> NoneV ]
    /\ pc = "client"
    /\ main = NoneV
    /\ tracker = PixelTracker_new
    /\ recovery = RecoveryManager_new
    /\ roi_selector = ROISelector_new
    /\ detector = HailoDetector_new(FALSE)
    /\ rc_connected = FALSE

ServoUpdateCall(bbox, u) ==
    /\ servo' = u.s
    /\ h' = [ op |-> "update", bbox |-> bbox, v |-> u.v ]

ServoUpdate ==
    /\ \E bbox \in ServoBoxes, elapsed \in ElapsedValues :
         ServoUpdateCall(bbox, VisualServo_update(servo, bbox, ServoFrameSize,
                                                  elapsed))
    /\ UNCHANGED << main, tracker, recovery, roi_selector, detector,
                    rc_connected, pc >>

ServoReset ==
    /\ servo' = VisualServo_reset(servo)
    /\ h' = [ op |-> "reset", bbox |-> NoneV, v |-> NoneV ]
    /\ UNCHANGED << main, tracker, recovery, roi_selector, detector,
                    rc_connected, pc >>

NextServo ==
    \/ ServoUpdate
    \/ ServoReset

SpecServo == InitServo /\ [][NextServo]_vars

\* ----------------------------------------- PIDController on its own
\* A client that feeds one PIDController error values at a fixed interval
\* and may reset it.
\*   servo     the PIDController
\*   h         op: the last call; error: the value handed to update; out:
\*             what update returned

\* now - prev_time of every update after the first, in seconds.
PIDInterval == R(1, 10)

PIDErrors == { R(-1, 2), R(-1, 4), RInt(0), R(1, 4), R(1, 2), RInt(1) }

InitPID ==
    /\ servo = PIDController_new
    /\ h = [ op |-> "none", error |-> RInt(0), out |-> RInt(0) ]
    /\ pc = "client"
    /\ main = NoneV
    /\ tracker = PixelTracker_new
    /\ recovery = RecoveryManager_new
    /\ roi_selector = ROISelector_new
    /\ detector = HailoDetector_new(FALSE)
    /\ rc_connected = FALSE

PIDUpdateCall(error, u) ==
    /\ servo' = u.pid
    /\ h' = [ op |-> "update", error |-> error, out |-> u.out ]

PIDUpdate ==
    /\ \E error \in PIDErrors :
         PIDUpdateCall(error, PIDController_update(servo, error, PIDInterval))
    /\ UNCHANGED << main, tracker, recovery, roi_selector, detector,
                    rc_connected, pc >>

PIDReset ==
    /\ servo' = PIDController_reset(servo)
    /\ h' = [ op |-> "reset", error |-> RInt(0), out |-> RInt(0) ]
    /\ UNCHANGED << main, tracker, recovery, roi_selector, detector,
                    rc_connected, pc >>

NextPID ==
    \/ PIDUpdate
    \/ PIDReset

SpecPID == InitPID /\ [][NextPID]_vars

\* ------------------------------------------------------------- shutdown
\* The three worker threads and the finally block of main(): rc.stop(),
\* then detector.stop().
\*   detector      the detector with its _running flag; wpc is the worker's
\*                 position in _inference_loop or _stub_loop: "test" (the
\*                 while condition), "get", "infer", "drop", "put", "exited",
\*                 or "hung" when pipeline.infer never returns
\*   main          rc: the RCInput object: _running, _conn (TRUE while the
\*                 connection is open), recv and hb the positions of
\*                 _receiver_loop and _heartbeat_loop
\*   rc_connected  rc._connected
\*   pc            the main thread: "loop" while the frame loop runs, then
\*                 the statements of the two stop() calls, then "stopped"

\* The detector after start().
HailoDetector_started(hailo_available) ==
    [ input_queue |-> << >>, output_queue |-> << >>,
      hailo |-> hailo_available, wpc |-> "test", held |-> << >>,
      running |-> TRUE ]

\* The RCInput object after a start() that connected.
RCInput_started ==
    [ running |-> TRUE, conn |-> TRUE, recv |-> "test", hb |-> "test" ]

\* while self._running
loop_test(running, body) == IF running THEN body ELSE "exited"

\* except queue.Empty that tries the queue again without the loop test.
inference_loop_empty_retry(d) == [d EXCEPT !.wpc = "get"]

\* except queue.Empty: continue
inference_loop_empty(d) == [d EXCEPT !.wpc = "test"]

InitShutdown ==
    /\ \E hailo_available \in BOOLEAN :
         detector = HailoDetector_started(hailo_available)
    /\ main = [ rc |-> RCInput_started ]
    /\ rc_connected = TRUE
    /\ pc = "loop"
    /\ h = NoneV
    /\ tracker = PixelTracker_new
    /\ recovery = RecoveryManager_new
    /\ servo = VisualServo_new
    /\ roi_selector = ROISelector_new

\* The frame loop hands a frame to the detector.
LoopRequest ==
    /\ pc = "loop"
    /\ detector' = HailoDetector_request_inference(detector, 1)
    /\ UNCHANGED << main, tracker, recovery, servo, roi_selector,
                    rc_connected, pc, h >>

\* The frame loop polls the detector.
LoopPoll ==
    /\ pc = "loop"
    /\ detector' = HailoDetector_get_results(detector).d
    /\ UNCHANGED << main, tracker, recovery, servo, roi_selector,
                    rc_connected, pc, h >>

\* break, or KeyboardInterrupt: the finally block begins.
LoopExit ==
    /\ pc = "loop"
    /\ pc' = "rc_stop"
    /\ UNCHANGED << main, tracker, recovery, servo, roi_selector, detector,
                    rc_connected, h >>

\* RCInput.stop: self._running = False; self._connected = False
RCStopFlag ==
    /\ pc = "rc_stop"
    /\ pc' = "rc_join_recv"
    /\ main' = [main EXCEPT !.rc.running = FALSE]
    /\ rc_connected' = FALSE
    /\ UNCHANGED << tracker, recovery, servo, roi_selector, detector, h >>

\* self._recv_thread.join(timeout=2.0) returns: the thread has exited or
\* the timeout has passed.
RCJoinRecv ==
    /\ pc = "rc_join_recv"
    /\ pc' = "rc_join_hb"
    /\ UNCHANGED << main, tracker, recovery, servo, roi_selector, detector,
                    rc_connected, h >>

\* self._hb_thread.join(timeout=2.0)
RCJoinHb ==
    /\ pc = "rc_join_hb"
    /\ pc' = "rc_close"
    /\ UNCHANGED << main, tracker, recovery, servo, roi_selector, detector,
                    rc_connected, h >>

\* self._conn.close(); self._conn = None
RCClose ==
    /\ pc = "rc_close"
    /\ pc' = "det_stop"
    /\ main' = [main EXCEPT !.rc.conn = FALSE]
    /\ UNCHANGED << tracker, recovery, servo, roi_selector, detector,
                    rc_connected, h >>

\* HailoDetector.stop: self._running = False
DetStopFlag ==
    /\ pc = "det_stop"
    /\ pc' = "det_join"
    /\ detector' = [detector EXCEPT !.running = FALSE]
    /\ UNCHANGED << main, tracker, recovery, servo, roi_selector,
                    rc_connected, h >>

\* self._thread.join(timeout=2.0)
DetJoin ==
    /\ pc = "det_join"
    /\ pc' = "stopped"
    /\ UNCHANGED << main, tracker, recovery, servo, roi_selector, detector,
                    rc_connected, h >>

\* _inference_loop / _stub_loop: while self._running
DetLoopTest ==
    /\ detector.wpc = "test"
    /\ detector' = [detector EXCEPT !.wpc = loop_test(detector.running, "get")]
    /\ UNCHANGED << main, tracker, recovery, servo, roi_selector,
                    rc_connected, pc, h >>

\* self._input_queue.get(timeout=0.1): a frame, or queue.Empty.
DetGet ==
    /\ detector.wpc = "get"
    /\ detector' =
         IF detector.input_queue = << >>
         THEN inference_loop_empty(detector)
         ELSE IF detector.hailo
         THEN [detector EXCEPT !.input_queue = << >>, !.wpc = "infer"]
         ELSE [detector EXCEPT !.input_queue = << >>,
                               !.held = << << >> >>, !.wpc = "drop"]
    /\ UNCHANGED << main, tracker, recovery, servo, roi_selector,
                    rc_connected, pc, h >>

\* pipeline.infer returns; _postprocess.
DetInfer ==
    /\ detector.wpc = "infer"
    /\ \E dets \in WorkerResults(TRUE, TRUE) :
         detector' = [detector EXCEPT !.held = << dets >>, !.wpc = "drop"]
    /\ UNCHANGED << main, tracker, recovery, servo, roi_selector,
                    rc_connected, pc, h >>

\* pipeline.infer never returns.
DetInferHangs ==
    /\ detector.wpc = "infer"
    /\ detector' = [detector EXCEPT !.wpc = "hung"]
    /\ UNCHANGED << main, tracker, recovery, servo, roi_selector,
                    rc_connected, pc, h >>

\* self._output_queue.get_nowait()
DetDrop ==
    /\ detector.wpc = "drop"
    /\ detector' = [detector EXCEPT !.output_queue = << >>, !.wpc = "put"]
    /\ UNCHANGED << main, tracker, recovery, servo, roi_selector,
                    rc_connected, pc, h >>

\* self._output_queue.put(detections): blocks while the queue is full.
DetPut ==
    /\ detector.wpc = "put"
    /\ detector.output_queue = << >>
    /\ detector' = [detector EXCEPT !.output_queue = << detector.held[1] >>,
                                    !.held = << >>, !.wpc = "test"]
    /\ UNCHANGED << main, tracker, recovery, servo, roi_selector,
                    rc_connected, pc, h >>

\* _receiver_loop: while self._running
RecvLoopTest ==
    /\ main.rc.recv = "test"
    /\ main' = [main EXCEPT !.rc.recv = loop_test(main.rc.running, "recv")]
    /\ UNCHANGED << tracker, recovery, servo, roi_selector, detector,
                    rc_connected, pc, h >>

\* recv_match(blocking=True, timeout=0.5): a message, None, or an exception
\* (the only outcome once stop() has set _conn to None); the handler sleeps
\* only if still running.
RecvMatch ==
    /\ main.rc.recv = "recv"
    /\ \E raised \in BOOLEAN :
         /\ main.rc.conn \/ raised
         /\ main' = [main EXCEPT !.rc.recv =
                        IF raised /\ main.rc.running THEN "sleep" ELSE "test"]
    /\ UNCHANGED << tracker, recovery, servo, roi_selector, detector,
                    rc_connected, pc, h >>

\* time.sleep(0.1)
RecvSleep ==
    /\ main.rc.recv = "sleep"
    /\ main' = [main EXCEPT !.rc.recv = "test"]
    /\ UNCHANGED << tracker, recovery, servo, roi_selector, detector,
                    rc_connected, pc, h >>

\* _heartbeat_loop: while self._running
HbLoopTest ==
    /\ main.rc.hb = "test"
    /\ main' = [main EXCEPT !.rc.hb = loop_test(main.rc.running, "send")]
    /\ UNCHANGED << tracker, recovery, servo, roi_selector, detector,
                    rc_connected, pc, h >>

\* heartbeat_send returns or raises (skipped when _conn is None).
HbSend ==
    /\ main.rc.hb = "send"
    /\ main' = [main EXCEPT !.rc.hb = "sleep"]
    /\ UNCHANGED << tracker, recovery, servo, roi_selector, detector,
                    rc_connected, pc, h >>

\* heartbeat_send never returns.
HbSendHangs ==
    /\ main.rc.hb = "send"
    /\ main.rc.conn
    /\ main' = [main EXCEPT !.rc.hb = "hung"]
    /\ UNCHANGED << tracker, recovery, servo, roi_selector, detector,
                    rc_connected, pc, h >>

\* time.sleep(1.0)
HbSleep ==
    /\ main.rc.hb = "sleep"
    /\ main' = [main EXCEPT !.rc.hb = "test"]
    /\ UNCHANGED << tracker, recovery, servo, roi_selector, detector,
                    rc_connected, pc, h >>

NextShutdown ==
    \/ LoopRequest
    \/ LoopPoll
    \/ LoopExit
    \/ RCStopFlag
    \/ RCJoinRecv
    \/ RCJoinHb
    \/ RCClose
    \/ DetStopFlag
    \/ DetJoin
    \/ DetLoopTest
    \/ DetGet
    \/ DetInfer
    \/ DetInferHangs
    \/ DetDrop
    \/ DetPut
    \/ RecvLoopTest
    \/ RecvMatch
    \/ RecvSleep
    \/ HbLoopTest
    \/ HbSend
    \/ HbSendHangs
    \/ HbSleep

\* Every thread keeps running, every call with a timeout returns, and a
\* call without one returns unless it hangs for good; the frame loop need
\* not ever end.
FairShutdown ==
    /\ WF_vars(RCStopFlag) /\ WF_vars(RCJoinRecv) /\ WF_vars(RCJoinHb)
    /\ WF_vars(RCClose) /\ WF_vars(DetStopFlag) /\ WF_vars(DetJoin)
    /\ WF_vars(DetLoopTest) /\ WF_vars(DetGet) /\ WF_vars(DetInfer)
    /\ WF_vars(DetDrop) /\ WF_vars(DetPut)
    /\ WF_vars(RecvLoopTest) /\ WF_vars(RecvMatch) /\ WF_vars(RecvSleep)
    /\ WF_vars(HbLoopTest) /\ WF_vars(HbSend) /\ WF_vars(HbSleep)

SpecShutdown == InitShutdown /\ [][NextShutdown]_vars /\ FairShutdown

\* ------------------------------------------- rc_input.py: channel reads
\* The receiver thread and the control thread on the channel map, for the
\* first two channels ROISelector.update_rc reads in a frame (ch_move_x,
\* ch_move_y).  Each get_channel holds the lock for one lookup; the
\* receiver holds it while it stores one message.
\*   main   rc: the channel map as << value of ch_move_x, value of
\*          ch_move_y >>, 0 for a channel not in the map; dx, dy: the raw
\*          values the frame has read, None before the read
\*   pc     the control thread: "read_x", "read_y", "used"
\*   h      maps: every state the channel map has had since the first read
\*          of the frame

\* chanN_raw of an RC_CHANNELS message; 0 and 65535 mark a channel without
\* a value.
MsgValues == { 0, 1000, 2000, 65535 }

\* if val != 0 and val != 65535: self._channels[i] = val
receiver_store(old, val) == IF val # 0 /\ val # 65535 THEN val ELSE old

\* self._channels.get(ch, 0)
RCInput_get_channel(channels, ch) == channels[ch]

InitChannels ==
    /\ main = [ rc |-> << 0, 0 >>, dx |-> NoneV, dy |-> NoneV ]
    /\ pc = "read_x"
    /\ h = [ maps |-> {} ]
    /\ rc_connected = TRUE
    /\ tracker = PixelTracker_new
    /\ recovery = RecoveryManager_new
    /\ servo = VisualServo_new
    /\ roi_selector = ROISelector_new
    /\ detector = HailoDetector_new(FALSE)

\* _receiver_loop: one message stored under the lock.
ReceiverStore ==
    /\ \E vx \in MsgValues, vy \in MsgValues :
         /\ main' = [main EXCEPT !.rc = << receiver_store(main.rc[1], vx),
                                           receiver_store(main.rc[2], vy) >>]
         /\ h' = IF pc = "read_x" THEN h
                 ELSE [h EXCEPT !.maps = @ \cup { main'.rc }]
    /\ UNCHANGED << tracker, recovery, servo, roi_selector, detector,
                    rc_connected, pc >>

\* dx = rc.get_stick_normalized(self.ch_move_x, ...): its get_channel.
ReadMoveX ==
    /\ pc = "read_x"
    /\ pc' = "read_y"
    /\ main' = [main EXCEPT !.dx = << RCInput_get_channel(main.rc, 1) >>]
    /\ h' = [ maps |-> { main.rc } ]
    /\ UNCHANGED << tracker, recovery, servo, roi_selector, detector,
                    rc_connected >>

\* dy = rc.get_stick_normalized(self.ch_move_y, ...): its get_channel.
ReadMoveY ==
    /\ pc = "read_y"
    /\ pc' = "used"
    /\ main' = [main EXCEPT !.dy = << RCInput_get_channel(main.rc, 2) >>]
    /\ UNCHANGED << tracker, recovery, servo, roi_selector, detector,
                    rc_connected, h >>

\* The cursor has moved by (dx, dy); the next frame reads again.
CursorMoved ==
    /\ pc = "used"
    /\ pc' = "read_x"
    /\ main' = [main EXCEPT !.dx = NoneV, !.dy = NoneV]
    /\ h' = [ maps |-> {} ]
    /\ UNCHANGED << tracker, recovery, servo, roi_selector, detector,
                    rc_connected >>

NextChannels ==
    \/ ReceiverStore
    \/ ReadMoveX
    \/ ReadMoveY
    \/ CursorMoved

SpecChannels == InitChannels /\ [][NextChannels]_vars

\* ------------------------------------------ rc_input.py: 3-way decoding
\* The control loop decoding one switch channel, frame after frame.
\*   main   raw: the value get_channel has for the channel; pos: the
\*          position decoded from it, None before the call

\* 0 (no value for the channel) and the raw range and its margins in steps
\* of 20.
SwitchRaws == { 0 } \cup { 800 + 20 * i : i \in 0..70 }

InitSwitch ==
    /\ \E raw \in SwitchRaws : main = [ raw |-> raw, pos |-> NoneV ]
    /\ pc = "decode"
    /\ h = NoneV
    /\ rc_connected = TRUE
    /\ tracker = PixelTracker_new
    /\ recovery = RecoveryManager_new
    /\ servo = VisualServo_new
    /\ roi_selector = ROISelector_new
    /\ detector = HailoDetector_new(FALSE)

\* mode_pos = rc.get_switch_3way(ch_mode)
SwitchDecode ==
    /\ pc = "decode"
    /\ pc' = "decoded"
    /\ main' = [main EXCEPT !.pos = << get_switch_3way(main.raw) >>]
    /\ UNCHANGED << tracker, recovery, servo, roi_selector, detector,
                    rc_connected, h >>

\* The next frame, with whatever the receiver has stored by then.
SwitchNextFrame ==
    /\ pc = "decoded"
    /\ pc' = "decode"
    /\ \E raw \in SwitchRaws : main' = [ raw |-> raw, pos |-> NoneV ]
    /\ UNCHANGED << tracker, recovery, servo, roi_selector, detector,
                    rc_connected, h >>

NextSwitch ==
    \/ SwitchDecode
    \/ SwitchNextFrame

SpecSwitch == InitSwitch /\ [][NextSwitch]_vars

\* ------------------------------------------- main.py: a TRACK_LOST episode
\* One recovery episode of a keyboard run with the accelerator, from the
\* frame that lost the track: the control loop runs the TRACK_LOST branch
\* frame after frame, the worker runs beside it.  Only the worker is
\* scheduled fairly; the control loop may stop at any frame.

\* The mailboxes and the worker as a loss can find them: the frame of the
\* loss pending, any result of an earlier request unread or still held by
\* the worker.  last_detections is what an earlier episode left.
LossDetectors ==
    { [ input_queue |-> << 0 >>, output_queue |-> out, hailo |-> TRUE,
        wpc |-> w.wpc, held |-> w.held ] :
        out \in { << >> } \cup { << dets >> : dets \in DetLists(FALSE) },
        w \in { [ wpc |-> "get", held |-> << >> ] }
              \cup { [ wpc |-> "put", held |-> << dets >> ] :
                       dets \in DetLists(FALSE) } }

InitEpisode ==
    /\ \E shown \in { NoneV } \cup { << dets >> : dets \in DetLists(FALSE) } :
         main = [ state |-> TRACK_LOST, current_bbox |-> Target(FALSE),
                  current_confidence |-> RInt(0), last_detections |-> shown,
                  recovery_frames |-> 0, cmd_str |-> << >>,
                  prev_mode_pos |-> -1, prev_state_pos |-> -1,
                  ai_mode |-> FALSE, frame |-> 0, key |-> "none" ]
    /\ tracker = PixelTracker_init(PixelTracker_new, Target(FALSE))
    /\ recovery = RecoveryManager_store_target(RecoveryManager_new,
                                               Target(FALSE))
    /\ servo = VisualServo_new
    /\ roi_selector = ROISelector_new
    /\ rc_connected = FALSE
    /\ detector \in LossDetectors
    /\ pc = "frame"
    /\ h = NoHistory

\* One iteration of the loop in TRACK_LOST with no key pressed.
EpisodeFrame ==
    /\ pc = "frame"
    /\ main.state = TRACK_LOST
    /\ Becomes(SM_TRACK_LOST([Cur EXCEPT !.h = NoHistory]))
    /\ UNCHANGED << rc_connected, pc >>

NextEpisode ==
    \/ EpisodeFrame
    \/ WorkerGet
    \/ WorkerPut

SpecEpisode ==
    /\ InitEpisode /\ [][NextEpisode]_vars
    /\ WF_vars(WorkerGet) /\ WF_vars(WorkerPut)

\* ------------------------------------------------------------ properties
\* What the full reset of main() (key 'r', lines 172-181) establishes.
TrackerDropped == ~tracker.active /\ ~tracker.tracker

PIDsCleared ==
    servo.pid_x = PIDController_new /\ servo.pid_y = PIDController_new

FullyReset ==
    /\ TrackerDropped
    /\ PIDsCleared
    /\ servo.error_x = RInt(0) /\ servo.error_y = RInt(0)
    /\ ~roi_selector.active
    /\ main.current_bbox = NoneV
    /\ main.current_confidence = RInt(0)
    /\ main.recovery_frames = 0
    /\ main.cmd_str = << >>

\* C1: a frame in which the mode switch leaves the AI position while
\* ai_mode is true ends with ai_mode false, the mission state IDLE, the
\* tracker session dropped, both PID states cleared, current bbox and
\* confidence cleared and the recovery-frame counter zero, whatever the
\* other inputs of the frame.  (Refuted: the state machine section of the
\* same frame takes the select key in IDLE.)
C1_OverrideFrameEndsIdle ==
    pc = "draw" /\ h.mode_ev = "override" =>
        /\ ~main.ai_mode
        /\ main.state = IDLE
        /\ TrackerDropped
        /\ PIDsCleared
        /\ main.current_bbox = NoneV
        /\ main.current_confidence = RInt(0)
        /\ main.recovery_frames = 0

\* C2: after a frame in which the mode switch leaves the AI position the
\* recovery matcher stores no target reference.  (Refuted: RecoveryManager
\* has no operation that clears the reference and main() calls none.)
C2_OverrideClearsReference ==
    pc = "draw" /\ h.mode_ev = "override" =>
        /\ ~RecoveryManager_has_reference(recovery)
        /\ recovery.last_center = NoneV
        /\ recovery.last_aspect = NoneV

\* C3: in a frame in which the mode switch moves into the AI position the
\* mission state after the RC section equals the state before it.
\* (Refuted: prev_state_pos is not kept while ai_mode is false, so the
\* state switch is compared with a stale position in that frame.)
C3_EnteringAIKeepsState ==
    pc = "sm" /\ h.mode_ev = "ai_on" => main.state = h.rc_state

\* The order of the mission states, as one section of the loop body may
\* move between them (a reset to IDLE is allowed from everywhere).
C4_Step ==
    /\ main'.state = TERMINAL /\ main.state # TERMINAL
           => main.state = STRIKE_ARMED
    /\ main'.state = STRIKE_ARMED /\ main.state # STRIKE_ARMED
           => main.state = TRACKING
    /\ main'.state = TARGET_SELECT /\ main.state # TARGET_SELECT
           => main.state = IDLE
    /\ main'.state = TRACKING /\ main.state # TRACKING
           => main.state \in { TARGET_SELECT, TRACK_LOST }

\* C4: in every section of the loop body the state becomes TERMINAL only
\* from STRIKE_ARMED, STRIKE_ARMED only from TRACKING, TARGET_SELECT only
\* from IDLE and TRACKING only from TARGET_SELECT or TRACK_LOST; and
\* whenever the state is TRACKING, TRACK_LOST, STRIKE_ARMED or TERMINAL a
\* target has been confirmed (the tracker and the recovery matcher hold it).
C4_ArmedBeforeTerminal ==
    /\ [][C4_Step]_vars
    /\ [](main.state \in { TRACKING, TRACK_LOST, STRIKE_ARMED, TERMINAL }
             => /\ tracker.init_bbox # NoneV
                /\ RecoveryManager_has_reference(recovery))

C4_Witness ==
    pc = "draw" /\ main.state = TERMINAL /\ h.rc_state = STRIKE_ARMED

\* C5: the first read of the two switches stores both positions and takes
\* no transition: the RC section of that frame leaves the mission state as
\* it was and takes neither the mode branch nor the state-switch branch,
\* and the placeholder -1 is gone from both previous positions before any
\* edge is looked for.
C5_FirstSampleStored ==
    /\ main.prev_mode_pos = -1 <=> main.prev_state_pos = -1
    /\ pc \in { "sm", "draw" } /\ rc_connected
           => main.prev_mode_pos \in 0 .. 2 /\ main.prev_state_pos \in 0 .. 2
    /\ pc = "sm" /\ h.first
           => /\ main.state = h.rc_state
              /\ h.mode_ev = "none"
              /\ h.sw_ev = "none"

C5_Witness ==
    pc = "sm" /\ h.first /\ main.ai_mode /\ main.prev_state_pos = 1

C7_UpMidEdge ==
    pc = "sm" /\ h.sw_ev = "up_mid"
        => /\ main.ai_mode
           /\ IF h.rc_state = IDLE
              THEN main.state = TARGET_SELECT /\ roi_selector.active
              ELSE main.state = h.rc_state

C7_Witness ==
    /\ pc = "sm" /\ h.sw_ev = "up_mid"
    /\ h.rc_state = IDLE /\ main.state = TARGET_SELECT

C9_IntoIdleFullyReset ==
    [][main.state # IDLE /\ main'.state = IDLE => FullyReset']_vars

\* C10: a state machine section that begins in TRACKING or STRIKE_ARMED and
\* whose tracker update fails ends in TRACK_LOST with the frame handed to
\* the detector and the recovery counter zero, whatever key arrived.
\* (Refuted: the arm key and the execute key are handled after the loss.)
C10_LossEndsTrackLost ==
    [][pc = "sm" /\ main.state \in { TRACKING, STRIKE_ARMED }
          /\ h'.upd = "fail"
        => /\ main'.state = TRACK_LOST
           /\ h'.req # NoneV
           /\ main'.recovery_frames = 0]_vars

\* What the poll of a TRACK_LOST frame will find: the best match among the
\* unread detections, NoneV when there is no unread result, an empty list
\* or no detection that qualifies.
PolledMatch ==
    IF detector.output_queue = << >> THEN NoneV
    ELSE IF detector.output_queue[1] = << >> THEN NoneV
    ELSE RecoveryManager_find_best_match(recovery, detector.output_queue[1])

\* C11: a TRACK_LOST frame whose polled results contain a qualifying match
\* ends in TRACKING with an active tracker session and the match as current
\* bbox, at every value of the recovery-frame counter.  (Refuted: the
\* timeout test runs after the re-acquisition in the same frame.)
C11_MatchEndsTracking ==
    [][pc = "sm" /\ main.state = TRACK_LOST /\ PolledMatch # NoneV
        => /\ main'.state = TRACKING
           /\ tracker'.active
           /\ main'.current_bbox = PolledMatch]_vars

\* C12: the recovery-frame counter is zero when TRACK_LOST is entered and
\* goes up by one in the state machine section of every TRACK_LOST frame
\* and nowhere else; a TRACK_LOST frame that finds no qualifying match
\* stays in TRACK_LOST while the counter is below max_recovery_frames and
\* ends in IDLE with the current bbox cleared in the frame in which the
\* counter reaches it.
C12_RecoveryTimeout ==
    /\ [][main.state # TRACK_LOST /\ main'.state = TRACK_LOST
             => main'.recovery_frames = 0]_vars
    /\ [][pc # "sm" /\ main.state = TRACK_LOST /\ main'.state = TRACK_LOST
             => main'.recovery_frames = main.recovery_frames]_vars
    /\ [][pc = "sm" /\ main.state = TRACK_LOST /\ PolledMatch = NoneV
             => /\ main'.recovery_frames = main.recovery_frames + 1
                /\ IF main'.recovery_frames >= MaxRecoveryFrames
                   THEN main'.state = IDLE /\ main'.current_bbox = NoneV
                   ELSE main'.state = TRACK_LOST]_vars
    /\ [](main.state = TRACK_LOST
             => main.recovery_frames < MaxRecoveryFrames)

C12_Witness ==
    /\ pc = "draw" /\ h.rc_state = TRACK_LOST /\ h.req # NoneV
    /\ main.state = IDLE /\ main.current_bbox = NoneV
    /\ main.recovery_frames = MaxRecoveryFrames

\* C13: a step that leaves TERMINAL is a reset to IDLE: the reset key, the
\* state switch moved to up in AI mode, or the mode switch leaving the AI
\* position.  No tracker update and no detector result leaves TERMINAL.
C13_TerminalUntilReset ==
    [][main.state = TERMINAL /\ main'.state # TERMINAL
        => /\ main'.state = IDLE
           /\ \/ pc = "frame" /\ main'.key = "r"
              \/ pc = "rc" /\ h'.sw_ev = "to_up"
              \/ pc = "rc" /\ h'.mode_ev = "override"]_vars

C13_Witness ==
    /\ pc = "draw" /\ h.rc_state = TERMINAL /\ main.state = TERMINAL
    /\ h.upd = "fail" /\ h.req # NoneV

\* C14: the mission state is never COMPLETE.
C14_CompleteUnreachable == main.state # COMPLETE

C14_Witness ==
    pc = "draw" /\ main.state = TERMINAL /\ h.sent /\ main.key = "none"
        /\ h.rc_state = TERMINAL

\* A frame the worker has taken is in flight until its result exists.
InFlight ==
    Len(detector.input_queue) + (IF detector.wpc = "infer" THEN 1 ELSE 0)

\* A step of the control thread that is a call of get_results (or no step
\* at all).
PollStep == pc = "ctl" /\ pc' = "ctl" /\ detector'.wpc = detector.wpc

\* C15: request_inference empties the input mailbox before it puts, the
\* pending frame is always the most recently submitted one, and the frame
\* the worker takes is the most recently submitted one and later than
\* every frame it took before.
C15_ReplaceNotQueue ==
    /\ [][pc = "ctl" /\ pc' = "req_put"
             => detector'.input_queue = << >>]_vars
    /\ [][detector.wpc = "get" /\ detector'.wpc = "infer"
             => h'.taken = main.submitted /\ h'.taken > h.taken]_vars
    /\ [](detector.input_queue # << >>
             => detector.input_queue = << main.submitted >>)

\* Frame 1 was processed, frame 2 was discarded, the worker holds frame 3.
C15_Witness ==
    detector.wpc = "infer" /\ detector.held = << 3 >> /\ h.published = 1

\* C16 as stated: a poll that follows several published results returns the
\* last of them.  (Refuted: the worker drops the unread result before it
\* puts the next one, and a poll between the two finds the mailbox empty.)
C16_PollReturnsLastCompleted ==
    [][PollStep /\ h.unpolled >= 2 /\ h'.unpolled = 0
        => main'.polled = << h.published >>]_vars

\* C16 as it holds: a poll returns None exactly when the output mailbox is
\* empty, and otherwise removes and returns the most recently published
\* result, which is later than every result delivered before: each result
\* is delivered at most once, in the order of computation, and a result
\* that was replaced is never delivered.
C16_LatestAtMostOnce ==
    /\ [][PollStep
             => IF detector.output_queue = << >>
                THEN main'.polled = NoneV \/ main'.polled = main.polled
                ELSE /\ main'.polled = << h.published >>
                     /\ detector'.output_queue = << >>
                     /\ h'.delivered = Append(h.delivered, h.published)]_vars
    /\ [](\A i \in 1 .. Len(h.delivered) : \A j \in 1 .. Len(h.delivered) :
             i < j => h.delivered[i] < h.delivered[j])

\* Results 1 and 2 were published between two polls; the poll returned 2.
C16_Witness ==
    main.polled = << 2 >> /\ h.delivered = << 2 >> /\ h.published = 2

\* C17: at most one submitted frame is in flight and at most one result is
\* unread.  (Refuted: while the worker infers on the frame it took, the
\* input mailbox accepts the next one.)
C17_OneInFlight ==
    InFlight <= 1 /\ Len(detector.output_queue) <= 1

\* C19: the put of request_inference never finds the input mailbox full
\* and the put of the worker never finds the output mailbox full.
C19_NeverBlocks ==
    /\ pc = "req_put" => ~Queue_full(detector.input_queue)
    /\ detector.wpc = "put" => ~Queue_full(detector.output_queue)

\* Both threads between their get_nowait and their put.
C19_Witness ==
    pc = "req_put" /\ detector.wpc = "put" /\ main.submitted = MaxSubmit
        /\ h.published >= 1

\* C18: the first poll of a loss episode made while the frame submitted at
\* the loss is still pending (the worker has taken no frame of the episode)
\* finds no unread result: whatever is unread then was computed from a
\* frame submitted before the episode.  (Refuted: no reset, timeout or
\* selection empties the mailboxes, and the poll delivers what an earlier
\* episode left behind.)
C18_NoStaleResult ==
    pc = "sm" /\ main.state = TRACK_LOST /\ main.recovery_frames = 0
        /\ detector.input_queue # << >>
    => detector.output_queue = << >>

\* w <= 0 or h <= 0
Degenerate(bbox) == bbox # NoneV /\ (bbox[3] <= 0 \/ bbox[4] <= 0)

\* C20: no degenerate box is the current bbox, the target reference or the
\* box of a tracker session; VisualServo.update is called with the box that
\* becomes the target reference in the same branch.  (Refuted: a box the
\* confidence proxy scores 0.0 is returned with success until frames_lost
\* reaches max_frames_lost.)
C20_NoDegenerateTarget ==
    /\ ~Degenerate(main.current_bbox)
    /\ ~Degenerate(recovery.last_bbox)
    /\ ~Degenerate(tracker.init_bbox)

\* The snapshot a session scores against.
Snapshot(t) == << t.init_bbox, t.init_area, t.init_aspect >>

\* C21: an update on a live session whose primitive succeeds returns the
\* bbox and the confidence; below 0.3 the loss counter goes up by one and
\* the update fails exactly when the counter has then reached
\* max_frames_lost; at 0.3 or more the counter is zero and the update
\* succeeds.  A failure that returns a bbox comes after at least
\* max_frames_lost counted updates in a row.
C21_LossDebounce ==
    /\ [][h'.op = "update" /\ tracker.active /\ h'.bbox # NoneV
             => /\ h'.conf = PixelTracker_compute_confidence(tracker, h'.bbox)
                /\ IF RLt(h'.conf, R(3, 10))
                   THEN /\ tracker'.frames_lost = tracker.frames_lost + 1
                        /\ h'.ok <=> tracker'.frames_lost < MaxFramesLost
                   ELSE tracker'.frames_lost = 0 /\ h'.ok]_vars
    /\ [](h.op = "update" /\ ~h.ok /\ h.bbox # NoneV
             => h.counted >= MaxFramesLost)

\* A loss reported with the bbox, in the update in which the counter
\* reaches max_frames_lost.
C21_Witness ==
    /\ h.op = "update" /\ ~h.ok /\ h.bbox = BoxNarrow
    /\ h.counted = MaxFramesLost /\ tracker.init_bbox = BoxSquare

\* C22: init leaves the tracker in the state a fresh tracker has after the
\* same init (loss counter 0, snapshot of the new bbox), whatever came
\* before; update and reset leave the snapshot as it is.
C22_InitIndependent ==
    /\ [](h.op = "init"
             => /\ tracker = PixelTracker_init(PixelTracker_new, h.arg)
                /\ tracker.frames_lost = 0
                /\ Snapshot(tracker)
                     = << h.arg, bbox_area(h.arg), bbox_aspect_ratio(h.arg) >>)
    /\ [][h'.op # "init" => Snapshot(tracker') = Snapshot(tracker)]_vars

C22_Witness ==
    /\ h.op = "update" /\ h.ok /\ h.bbox = BoxSquare
    /\ tracker.init_bbox = BoxNarrow /\ tracker.frames_lost = 1

\* The box of a detection, its distance and aspect difference from the
\* stored reference, the two gates and the score.
DetBox(det) == << det[3], det[4], det[5], det[6] >>
DetDistance(box) == centroid_distance(box, recovery.last_bbox)
DetAspectDiff(box) ==
    RAbs(RSub(bbox_aspect_ratio(box), bbox_aspect_ratio(recovery.last_bbox)))
PassesGates(box) ==
    /\ RLe(DetDistance(box), max_centroid_distance)
    /\ RLe(DetAspectDiff(box), aspect_ratio_tolerance)
DetScore(box) == RAdd(DetDistance(box), RMul(RInt(100), DetAspectDiff(box)))

\* The positions of the list last handed to find_best_match whose
\* detection passes both gates.
Qualifying ==
    IF recovery.last_bbox = NoneV THEN { }
    ELSE { i \in 1 .. Len(h.dets) : PassesGates(DetBox(h.dets[i])) }

\* C23: find_best_match returns None when no reference is stored, when the
\* list is empty and when every detection fails a gate; a box it returns
\* is the box of one of the detections handed in and passes both gates.
C23_NoneOrGatedInput ==
    h.op = "find" =>
        /\ Qualifying = { } => h.match = NoneV
        /\ h.match # NoneV
             => \E i \in Qualifying : DetBox(h.dets[i]) = h.match

\* A reference is stored and both detections fail a gate.
C23_Witness ==
    /\ h.op = "find" /\ h.dets = << DetFar, DetWide >> /\ h.match = NoneV
    /\ RecoveryManager_has_reference(recovery)

\* C24: when some detection passes both gates, find_best_match returns the
\* box of the first detection, in input order, whose score is the lowest
\* among those that pass.
C24_LowestScoreFirst ==
    h.op = "find" /\ Qualifying # { } =>
        \E i \in Qualifying :
            /\ h.match = DetBox(h.dets[i])
            /\ \A j \in Qualifying :
                 /\ RLe(DetScore(DetBox(h.dets[i])), DetScore(DetBox(h.dets[j])))
                 /\ j < i => RLt(DetScore(DetBox(h.dets[i])),
                                 DetScore(DetBox(h.dets[j])))

\* The nearer detection of worse aspect loses, and of the two that tie the
\* first is returned.
C24_Witness ==
    /\ h.op = "find" /\ h.dets = << DetSkew, DetNear, DetNear2 >>
    /\ h.match = DetBox(DetNear)

\* The normalized errors of a box on the servo client's frame.
ServoErrorX(bbox) == normalized_error(bbox_center(bbox)[1], ServoFrameSize[1])
ServoErrorY(bbox) == normalized_error(bbox_center(bbox)[2], ServoFrameSize[2])

\* C25: update stores the two normalized errors; an axis whose error is
\* within the deadband gets the command 0 and keeps its PID state, an axis
\* whose error is beyond it has its PID updated on that error.  The x error
\* drives pid_x and vy, the y error pid_y and vx.  A box on the frame centre
\* gives errors 0 and the command (0, 0, descent_rate) from every PID state.
C25_DeadbandZero ==
    [][h'.op = "update"
        => /\ servo'.error_x = ServoErrorX(h'.bbox)
           /\ servo'.error_y = ServoErrorY(h'.bbox)
           /\ h'.v = << servo'.cmd_vx, servo'.cmd_vy, descent_rate >>
           /\ IF RLe(RAbs(servo'.error_x), deadband)
              THEN servo'.cmd_vy = RInt(0) /\ servo'.pid_x = servo.pid_x
              ELSE /\ servo'.pid_x.prev_error = servo'.error_x
                   /\ servo'.pid_x.prev_time # NoneV
           /\ IF RLe(RAbs(servo'.error_y), deadband)
              THEN servo'.cmd_vx = RInt(0) /\ servo'.pid_y = servo.pid_y
              ELSE /\ servo'.pid_y.prev_error = servo'.error_y
                   /\ servo'.pid_y.prev_time # NoneV
           /\ h'.bbox = ServoCentre
                => /\ servo'.error_x = RInt(0) /\ servo'.error_y = RInt(0)
                   /\ h'.v = << RInt(0), RInt(0), descent_rate >>]_vars

\* A centred box after both PIDs have accumulated state.
C25_Witness ==
    /\ h.op = "update" /\ h.bbox = ServoCentre
    /\ servo.pid_x.integral # RInt(0) /\ servo.pid_y.integral # RInt(0)
    /\ servo.pid_x.prev_error # RInt(0)
    /\ h.v = << RInt(0), RInt(0), descent_rate >>

\* An update that continues an increasing sequence of errors: the first
\* update of a controller, or one whose error is above the previous one.
IncreasingUpdate ==
    /\ h'.op = "update"
    /\ servo.prev_time = NoneV \/ RLt(servo.prev_error, h'.error)

\* C26 as stated: an update that continues an increasing sequence of errors
\* does not lower the integral, and the integral stays within the windup
\* limit.  (Refuted: errors that increase below zero lower the integral.)
C26_IntegralMonotone ==
    /\ [][IncreasingUpdate => RLe(servo.integral, servo'.integral)]_vars
    /\ [](RLe(RAbs(servo.integral), windup_limit))

\* C26 as it holds: an update that continues an increasing sequence of
\* errors with an error that is not negative does not lower the integral,
\* and after every update the magnitude of the integral is at most the
\* windup limit.
C26_IntegralMonotoneNonNegative ==
    /\ [][IncreasingUpdate /\ RLe(RInt(0), h'.error)
             => RLe(servo.integral, servo'.integral)]_vars
    /\ [](RLe(RAbs(servo.integral), windup_limit))

\* The integral clamped at the limit by an update on a positive error.
C26_Witness ==
    /\ h.op = "update" /\ h.error = RInt(1)
    /\ servo.integral = windup_limit

\* C27: at the end of every frame in which the radio is connected the stored
\* position of the mode switch and of the state switch is the position
\* decoded in that frame.  (Refuted: the state switch's stored position is
\* written only when aiMode is true and the position changed.)
C27_StoredPositionsCurrent ==
    pc \in { "sm", "draw" } /\ h.pos # NoneV
        => /\ main.prev_mode_pos = h.pos[1]
           /\ main.prev_state_pos = h.pos[2]

\* C28: without the accelerator every request the worker consumes publishes
\* one empty list, no mailbox and no poll ever holds a non-empty list, and a
\* TRACK_LOST episode never goes back to TRACKING.
C28_StubAlwaysEmpty ==
    /\ [](/\ ~detector.hailo
          /\ detector.held \in { << >>, << << >> >> }
          /\ detector.output_queue \in { << >>, << << >> >> }
          /\ main.last_detections \in { NoneV, << << >> >> })
    /\ [][detector.wpc = "get" /\ detector'.wpc = "put"
             => /\ detector.input_queue # << >>
                /\ detector'.input_queue = << >>
                /\ detector'.held = << << >> >>]_vars
    /\ [][detector.wpc = "put" /\ detector'.wpc = "get"
             => /\ detector'.output_queue = << << >> >>
                /\ detector'.held = << >>]_vars
    /\ [][main.state = TRACK_LOST => main'.state # TRACKING]_vars

\* A TRACK_LOST frame that polled the stub's empty list and asked again.
C28_Witness ==
    /\ pc = "draw" /\ h.rc_state = TRACK_LOST /\ main.state = TRACK_LOST
    /\ main.last_detections = << << >> >>
    /\ h.req # NoneV

\* C30: the state machine section of a frame that begins it in
\* TARGET_SELECT ends, when the ROI surface has confirmed, with the tracker
\* initialized on the confirmed bbox, that bbox stored as the target
\* reference and as current bbox, the servo reset and the state TRACKING;
\* when the surface has cancelled, in IDLE; otherwise in TARGET_SELECT with
\* nothing else changed.
C30_TargetSelectOutcome ==
    [][pc = "sm" /\ main.state = TARGET_SELECT
          => IF roi_selector'.confirmed
             THEN /\ roi_selector'.bbox # NoneV
                  /\ tracker'.tracker /\ tracker'.active
                  /\ tracker'.init_bbox = roi_selector'.bbox
                  /\ tracker'.frames_lost = 0
                  /\ recovery'.last_bbox = roi_selector'.bbox
                  /\ recovery'.last_center = bbox_center(roi_selector'.bbox)
                  /\ main'.current_bbox = roi_selector'.bbox
                  /\ servo'.pid_x = PIDController_new
                  /\ servo'.pid_y = PIDController_new
                  /\ servo'.error_x = RInt(0) /\ servo'.error_y = RInt(0)
                  /\ main'.state = TRACKING
             ELSE /\ main'.state = IF roi_selector'.cancelled
                                   THEN IDLE ELSE TARGET_SELECT
                  /\ main'.current_bbox = main.current_bbox
                  /\ UNCHANGED << tracker, recovery, servo >>]_vars

\* A confirmed selection, made after the servo had flown an earlier one.
C30_Witness ==
    /\ pc = "draw" /\ h.rc_state = TARGET_SELECT /\ main.state = TRACKING
    /\ roi_selector.confirmed
    /\ main.current_bbox = roi_selector.bbox
    /\ tracker.init_bbox = roi_selector.bbox
    /\ servo.cmd_vx # RInt(0) \/ servo.cmd_vy # RInt(0)

\* C29: once a stop() has cleared a running flag, each worker whose blocking
\* call returns reaches the end of its loop and stays there; and each
\* stop() that has begun returns, whether or not its workers have exited.
C29_CancellationTerminates ==
    /\ (~detector.running) ~> (detector.wpc \in { "exited", "hung" })
    /\ (~main.rc.running) ~> (main.rc.recv = "exited")
    /\ (~main.rc.running) ~> (main.rc.hb \in { "exited", "hung" })
    /\ [][/\ detector.wpc = "exited" => detector'.wpc = "exited"
          /\ main.rc.recv = "exited" => main'.rc.recv = "exited"
          /\ main.rc.hb = "exited" => main'.rc.hb = "exited"]_vars
    /\ (pc = "rc_stop") ~> (pc = "det_stop")
    /\ (pc = "det_stop") ~> (pc = "stopped")

\* Both stop() calls have returned and two workers hang for good in a call
\* that does not return; the receiver has exited.
C29_Witness ==
    /\ pc = "stopped"
    /\ detector.wpc = "hung" /\ main.rc.hb = "hung"
    /\ main.rc.recv = "exited"

\* C31: a frame whose tracker update succeeded ends with the target
\* reference equal to that frame's bbox, which is the current bbox; a frame
\* whose update failed, and a TRACK_LOST frame (find_best_match), leave the
\* reference as it was.
C31_ReferenceFollowsTarget ==
    /\ [](pc = "draw" /\ h.upd = "ok"
            => /\ main.current_bbox # NoneV
               /\ recovery = RecoveryManager_store_target(recovery,
                                                           main.current_bbox))
    /\ [][pc = "sm" /\ h'.upd = "ok" /\ main.state \in { TRACKING, STRIKE_ARMED, TERMINAL }
             => recovery'.last_bbox = main'.current_bbox]_vars
    /\ [][pc = "sm" /\ (h'.upd = "fail" \/ main.state = TRACK_LOST)
             => recovery' = recovery]_vars

\* The reference has followed the target to a box that is not the selection.
C31_Witness ==
    /\ pc = "draw" /\ h.upd = "ok" /\ main.state = TERMINAL
    /\ recovery.last_bbox = BoxDegenerate
    /\ main.current_bbox = BoxDegenerate
    /\ tracker.init_bbox # BoxDegenerate

\* C32: the velocities VisualServo.update returns, and the commands it
\* stores, are within max_velocity in magnitude on both axes, and the third
\* component is the configured descent rate whatever the error.
C32_VelocityClamped ==
    h.op = "update"
        => /\ RLe(RAbs(h.v[1]), max_velocity)
           /\ RLe(RAbs(h.v[2]), max_velocity)
           /\ h.v[3] = descent_rate
           /\ servo.cmd_vx = h.v[1] /\ servo.cmd_vy = h.v[2]

\* An update on a box far off the centre whose lateral command sits on the
\* limit.
C32_Witness ==
    /\ h.op = "update" /\ h.bbox = ServoFar
    /\ RAbs(h.v[2]) = max_velocity
    /\ h.v[3] = descent_rate

\* C33: the channel values a frame uses all come from one state of the
\* channel map.  (Refuted: each read takes the lock on its own, and the
\* receiver can store a message between two reads of a frame.)
C33_SnapshotReads ==
    pc = "used"
        => \E m \in h.maps : main.dx = << m[1] >> /\ main.dy = << m[2] >>

\* C34: the decoder the control loop calls gives every raw value one of the
\* three positions, the positions do not decrease as the raw value grows
\* (two thresholds cut the range into three bands), and each of the three
\* bands holds some raw value.
C34_ThreeBands ==
    pc = "decoded"
        => /\ main.pos # NoneV
           /\ main.pos[1] \in SwitchPositions
           /\ \A r \in SwitchRaws :
                /\ r <= main.raw => get_switch_3way(r) <= main.pos[1]
                /\ r >= main.raw => get_switch_3way(r) >= main.pos[1]
           /\ \A p \in SwitchPositions :
                \E r \in SwitchRaws : get_switch_3way(r) = p

\* A value of the middle of the range decoded as the middle position.
C34_Witness ==
    pc = "decoded" /\ main.raw = 1500 /\ main.pos = << 1 >>

\* C35: at the end of every frame the tracker session is active exactly
\* when the mission state is TRACKING, TRACK_LOST, STRIKE_ARMED or TERMINAL.
C35_SessionMatchesState ==
    pc \in { "draw", "frame" }
        => (tracker.active /\ tracker.tracker
              <=> main.state \in { TRACKING, TRACK_LOST, STRIKE_ARMED,
                                   TERMINAL })

\* A recovery that timed out: the frame began in TRACK_LOST and ends in IDLE
\* with the session dropped.
C35_Witness ==
    /\ pc = "draw" /\ h.rc_state = TRACK_LOST /\ h.sw_ev = "none"
    /\ main.state = IDLE
    /\ ~tracker.active /\ ~tracker.tracker

\* C36: send_velocity is called in the state machine section of a frame
\* exactly when that section runs the TERMINAL branch and the tracker update
\* succeeds; a successful update in TRACKING or STRIKE_ARMED produces the
\* display string only, and no other section of the loop sends.
C36_SendOnlyInTerminal ==
    /\ [][pc = "sm"
             => (h'.sent <=> main.state = TERMINAL /\ h'.upd = "ok")]_vars
    /\ [][pc = "sm" /\ main.state \in { TRACKING, STRIKE_ARMED }
              /\ h'.upd = "ok"
             => /\ ~h'.sent
                /\ main'.cmd_str =
                     MAVLinkInterface_log_command(servo'.cmd_vx,
                                                  servo'.cmd_vy,
                                                  descent_rate)]_vars
    /\ [][pc # "sm" => ~h'.sent]_vars

\* A TERMINAL frame that sent a command.
C36_Witness ==
    /\ pc = "draw" /\ h.sent /\ h.upd = "ok"
    /\ h.rc_state = TERMINAL /\ main.state = TERMINAL
    /\ main.cmd_str # << >>

\* C37: while the radio is connected and ai_mode is false the mission state
\* is IDLE and no velocity command is sent.  (Refuted: the key handlers do
\* not read ai_mode.)
C37_ManualStaysIdle ==
    rc_connected /\ ~main.ai_mode /\ pc \in { "draw", "frame" }
        => main.state = IDLE /\ ~h.sent

\* C38: no frame starts in TRACKING and ends in TERMINAL.  (Refuted: the
\* switch edge arms in the RC section and the key executes in the state
\* machine section of the same frame.)
C38_NoArmAndExecuteInOneFrame ==
    pc = "draw" /\ h.rc_state = TRACKING => main.state # TERMINAL

\* In every state with mission state TRACK_LOST there is a frame pending in
\* the input mailbox, a frame the worker has taken and not yet answered, or
\* an unread result in the output mailbox.
C39_RecoveryNeverStalls ==
    main.state = TRACK_LOST
        => \/ detector.input_queue # << >>
           \/ detector.wpc = "put"
           \/ detector.output_queue # << >>

\* C39, with its consequence: TRACK_LOST never stalls, and with the worker
\* scheduled fairly a result arrives in the output mailbox unless the episode
\* ends first, again and again.
C39_ResultsKeepArriving ==
    /\ [](C39_RecoveryNeverStalls)
    /\ (main.state = TRACK_LOST)
          ~> (main.state # TRACK_LOST \/ detector.output_queue # << >>)

\* A TRACK_LOST frame that polled a list without a match and handed the
\* frame to the detector again.
C39_Witness ==
    /\ main.state = TRACK_LOST /\ main.recovery_frames > 0
    /\ h.req # NoneV
    /\ main.last_detections = << << >> >>
    /\ detector.input_queue # << >>
    /\ detector.output_queue = << >>
    /\ detector.wpc = "get"
    /\ detector.hailo

=============================================================================
